---- MODULE Spec2Model ----
(***************************************************************************)
(* State-machine model of server/index.js: the multi-account WhatsApp      *)
(* bridge.  One Account object per account id holds its gateway session,   *)
(* connection state and the in-memory stores (chats, messages, contacts,   *)
(* pushNames, profilePics).  Gateway events and observer commands are run  *)
(* by async handlers; every `await` of a handler is a suspension point at  *)
(* which any other handler, event or timer may run.                        *)
(***************************************************************************)
EXTENDS Integers, Sequences, FiniteSets, TLC

(***************************************************************************)
(* Bounds of the model                                                     *)
(***************************************************************************)
MaxUnread == 2      \* cap on a chat's unread counter
MaxBatch == 2       \* longest gateway message batch
MaxTimers == 1      \* reconnections of one account that are scheduled or under way
MaxInFlight == 1    \* connect-account commands of one account under way

(***************************************************************************)
(* Universe of values                                                      *)
(***************************************************************************)
AccIds == {"a1", "a2"}
SessIds == {1, 2}
Slots == {1, 2}
ObjIds == {1, 2, 3, 4}

\* A JID "user[:device]@server"; device 0 = no device part, server "" = no
\* "@server" part (a bare phone-number string used as a map key).
Jid(u, d, s) == [user |-> u, device |-> d, server |-> s]

DefaultServer == "s.whatsapp.net"

\* src: normalizeJid
normalizeJid(jid) ==
    IF jid.server # ""
    THEN Jid(jid.user, 0, jid.server)
    ELSE Jid(jid.user, jid.device, DefaultServer)

\* src: getPhoneFromJid, as the map key it is used as (a bare string)
getPhoneFromJid(jid) == Jid(jid.user, 0, "")

\* The chat the store specifications follow (an ordinary individual chat).
StoreJids == {Jid("5511", 0, DefaultServer)}

\* Message ids: the gateway's inbound messages and the ids it gives to
\* messages sent through it (which it also echoes in upserts and history).
InIds == {1, 2}
OutIds == {3}
MsgIds == InIds \cup OutIds
TsOf(i) == CASE i = 1 -> 2 [] i = 2 -> 1 [] OTHER -> 3

NoName == ""
Msg(j, i, p) ==
    [jid |-> j, id |-> i, fromMe |-> (i \in OutIds), ts |-> TsOf(i), pushName |-> p]
NoMsg == [jid |-> Jid("", 0, ""), id |-> 0, fromMe |-> FALSE, ts |-> 0, pushName |-> NoName]

StoreMsgs == {Msg(j, i, NoName) : j \in StoreJids, i \in MsgIds}

RECURSIVE SeqsUpTo(_, _)
SeqsUpTo(S, n) ==
    IF n = 0 THEN {<<>>}
    ELSE LET shorter == SeqsUpTo(S, n - 1)
         IN shorter \cup {Append(q, x) : q \in {r \in shorter : Len(r) = n - 1}, x \in S}

StoreBatches == SeqsUpTo(StoreMsgs, MaxBatch) \ {<<>>}

(***************************************************************************)
(* Maps (JS Map): a function whose domain is the set of keys present       *)
(***************************************************************************)
EmptyMap == [x \in {} |-> 0]
MapHas(m, k) == k \in DOMAIN m
MapSet(m, k, v) == [x \in (DOMAIN m) \cup {k} |-> IF x = k THEN v ELSE m[x]]

VARIABLES
    registry,         \* keys of the Map `accounts`
    connectionState,  \* account.connectionState
    sock,             \* account.sock: 0 = null, else the session it points to
    sessions,         \* gateway sessions made by makeWASocket
    chats,            \* account.chats: jid -> chat object (a heap reference)
    heap,             \* the chat objects
    messages,         \* account.messages: jid -> array of messages
    contacts,         \* account.contacts
    pushNames,        \* account.pushNames
    profilePics,      \* account.profilePics
    handlers,         \* running async handlers, one per slot
    issued,           \* ids the gateway has given to messages sent through it
    authFolder,       \* the account's credential directory: absent, empty or with creds
    phoneNumber,      \* account.phoneNumber
    file,             \* accounts.json: account id -> the name and phone number saved
    accountName,      \* account.name
    timers,           \* reconnection timers set and not yet fired
    conn,             \* connectAccount calls suspended before makeWASocket
    pending,          \* delete-account / logout-account suspended at sock.logout()
    created,          \* account ids generated so far
    uploads,          \* the temporary files there are in the uploads folder
    out,              \* observation: notifications emitted by the last step
    returned,         \* observation: the handler that returned in the last step
    expect,           \* observation: inbound live messages folded per chat
    supplied          \* observation: contact ids the gateway gave an explicit name

lifeVars == <<registry, accountName, connectionState, sock, sessions, authFolder, phoneNumber, file,
              timers, conn, pending, created, uploads>>

storeVars == <<chats, heap, messages, contacts, pushNames, profilePics, handlers, issued,
               expect, supplied>>

vars == <<lifeVars, storeVars, out, returned>>

(***************************************************************************)
(* Chat objects                                                            *)
(***************************************************************************)
NoLast == [id |-> 0, fromMe |-> FALSE, timestamp |-> 0]
FreeObj == [id |-> Jid("", 0, ""), unreadCount |-> 0, lastMessage |-> NoLast,
            timestamp |-> 0, conversationTimestamp |-> 0]

\* src: updateChatInList, the literal { id: jid, unreadCount: 0 }
NewChat(jid) == [FreeObj EXCEPT !.id = jid]

\* src: formatMessage, the fields kept of the projection
formatMessage(msg) == [id |-> msg.id, fromMe |-> msg.fromMe, timestamp |-> msg.ts]

\* A handler slot.  kind: which handler runs in it; pc: the await it is
\* suspended at; cur/rest: the message in hand and the rest of the batch;
\* existing: the chat object updateChatInList holds; q: whether a
\* profilePictureUrl query is in flight; pend: the chats whose picture the
\* running getFormattedChats will query; snap: get-messages' formatted list;
\* nbc: chats-update broadcasts emitted so far; name: the name a
\* getContactInfo call has resolved before it asks for the picture; stamp:
\* the Date.now() in the names of the temporary files of a conversion.
Idle == [kind |-> "idle", pc |-> "", acct |-> "", cur |-> NoMsg, rest |-> <<>>,
         type |-> "", existing |-> 0, nbc |-> 0, jid |-> Jid("", 0, ""),
         q |-> FALSE, pend |-> {}, snap |-> <<>>, sk |-> 0, hadLog |-> FALSE,
         name |-> "", stamp |-> 0]

Referenced(o, cs, hs) ==
    \/ \E a \in AccIds : \E j \in DOMAIN cs[a] : cs[a][j] = o
    \/ \E h \in Slots : hs[h].existing = o

\* Objects nothing refers to any more are reclaimed.
Collect(hp, cs, hs) == [o \in ObjIds |-> IF Referenced(o, cs, hs) THEN hp[o] ELSE FreeObj]

FreeObjs == {o \in ObjIds : ~Referenced(o, chats, handlers)}
FreeSlots(S) == {h \in S : handlers[h].kind = "idle"}
Least(S) == CHOOSE x \in S : \A y \in S : x <= y

A1 == "a1"
A2 == "a2"
NoPhone == "null"
NoSession == [acct |-> "", status |-> "free", by |-> ""]

HasLiveSession(a) == \E s \in SessIds : sessions[s].status = "live" /\ sessions[s].acct = a


(***************************************************************************)
(* Ordered maps (JS Map whose iteration order matters): a sequence of      *)
(* <<key, value>> entries in insertion order, keys unique                  *)
(***************************************************************************)
OKeys(m) == {m[i].key : i \in 1..Len(m)}
OHas(m, k) == k \in OKeys(m)
OGet(m, k) == m[CHOOSE i \in 1..Len(m) : m[i].key = k].val
OSet(m, k, v) ==
    IF OHas(m, k)
    THEN [i \in 1..Len(m) |-> IF m[i].key = k THEN [key |-> k, val |-> v] ELSE m[i]]
    ELSE Append(m, [key |-> k, val |-> v])

Contact(n, nt, vn) == [name |-> n, notify |-> nt, verifiedName |-> vn]

\* JS  a || b  on names ("" is every falsy value: undefined, null, '')
Or(a, b) == IF a # NoName THEN a ELSE b

PicResults == {"null", "url"}

(***************************************************************************)
(* messages.upsert: the synchronous part of the loop body (lines 308-327)  *)
(* for one message, on the account's stores st                             *)
(***************************************************************************)
HasId(log, i) == \E k \in 1..Len(log) : log[k].id = i

\* An append that puts the new message at the head of the log.
AppendFirst(ms, msg) ==
    LET log == IF MapHas(ms, msg.jid) THEN ms[msg.jid] ELSE <<>>
    IN MapSet(ms, msg.jid, IF HasId(log, msg.id) THEN log ELSE <<msg>> \o log)

\* src: lines 320-327 (and 406-412): append unless the id is already there
AppendDedup(ms, msg) ==
    LET log == IF MapHas(ms, msg.jid) THEN ms[msg.jid] ELSE <<>>
    IN MapSet(ms, msg.jid, IF HasId(log, msg.id) THEN log ELSE Append(log, msg))

UpsertOne(st, msg) ==
    LET nj == normalizeJid(msg.jid)
        ph == getPhoneFromJid(msg.jid)
        named == msg.pushName # NoName /\ ~msg.fromMe
    IN [messages |-> AppendDedup(st.messages, msg),
        pushNames |-> IF named
                      THEN MapSet(MapSet(st.pushNames, nj, msg.pushName), ph, msg.pushName)
                      ELSE st.pushNames,
        contacts |-> IF named /\ ~OHas(st.contacts, nj)
                     THEN OSet(st.contacts, nj, Contact(msg.pushName, msg.pushName, NoName))
                     ELSE st.contacts]

\* Runs the loop up to its first await: the messages that are outbound or
\* not of the live class are processed without suspending.
RECURSIVE UpsertSync(_, _, _)
UpsertSync(st, batch, type) ==
    IF batch = <<>> THEN [st |-> st, cur |-> NoMsg, rest |-> <<>>]
    ELSE LET msg == Head(batch)
             st1 == UpsertOne(st, msg)
         IN IF ~msg.fromMe /\ type = "notify"
            THEN [st |-> st1, cur |-> msg, rest |-> Tail(batch)]
            ELSE UpsertSync(st1, Tail(batch), type)

Stores(a) == [messages |-> messages[a], contacts |-> contacts[a], pushNames |-> pushNames[a]]

\* What is observed of a handler's return: which handler, for which
\* account, and the chats-update broadcasts it has emitted.
Ret(kind, a, n) == [kind |-> kind, acct |-> a, nbc |-> n]
NoReturn == Ret("", "", 0)

Finish(h, kind, nbc) ==
    /\ handlers' = [handlers EXCEPT ![h] = Idle]
    /\ returned' = Ret(kind, handlers[h].acct, nbc)

\* The loop of the messages.upsert handler from `batch` on, in slot h: the
\* synchronous part, then either the handler's end or the call of
\* getContactInfo (line 330), which suspends; pics: profilePics as it is now.
UpsertLoop(a, h, batch, type, nbc, pics) ==
    LET r == UpsertSync(Stores(a), batch, type)
    IN /\ messages' = [messages EXCEPT ![a] = r.st.messages]
       /\ contacts' = [contacts EXCEPT ![a] = r.st.contacts]
       /\ pushNames' = [pushNames EXCEPT ![a] = r.st.pushNames]
       /\ IF r.cur = NoMsg
          THEN /\ handlers' = [handlers EXCEPT ![h] = Idle]
               /\ returned' = Ret("messages.upsert", a, nbc)
          ELSE /\ returned' = NoReturn
               /\ handlers' = [handlers EXCEPT ![h] =
                      [Idle EXCEPT !.kind = "messages.upsert", !.pc = "contact",
                                   !.acct = a, !.cur = r.cur, !.rest = r.rest,
                                   !.type = type, !.nbc = nbc, !.jid = r.cur.jid,
                                   !.q = ~MapHas(pics, r.cur.jid)]]

\* The messages the gateway can deliver: inbound ones, and the ones sent
\* through it (its echo of a message it was given to send).
Known(a, batch) == \A k \in 1..Len(batch) : batch[k].id \in InIds \cup issued[a]

\* src: sock.ev.on('messages.upsert', ...) called by the gateway
UpsertBegin(S, a, batch, type) ==
    /\ HasLiveSession(a)
    /\ Known(a, batch)
    /\ FreeSlots(S) # {}
    /\ UpsertLoop(a, Least(FreeSlots(S)), batch, type, 0, profilePics[a])
    /\ out' = <<>>
    /\ UNCHANGED <<lifeVars, supplied, chats, heap, profilePics, issued, expect>>

\* src: getProfilePicture after its await: cache what the gateway answered
PicAnswer(h, r) ==
    IF handlers[h].q
    THEN [profilePics EXCEPT ![handlers[h].acct] = MapSet(@, handlers[h].jid, r)]
    ELSE profilePics

\* src: updateChatInList line 575: the stored object, or a new one
Existing(a, jid) == IF MapHas(chats[a], jid) THEN chats[a][jid] ELSE Least(FreeObjs)

HoldExisting(a, jid) ==
    IF MapHas(chats[a], jid) THEN heap ELSE [heap EXCEPT ![Least(FreeObjs)] = NewChat(jid)]

\* messages.upsert, lines 330-340: getContactInfo has answered; the
\* new-message notification goes out and updateChatInList runs to its
\* first await (line 576).
UpsertNotify(h) ==
    LET H == handlers[h]
    IN /\ H.kind = "messages.upsert" /\ H.pc = "contact"
       /\ MapHas(chats[H.acct], H.jid) \/ FreeObjs # {}
       /\ \E r \in PicResults :
             /\ H.q \/ r = "null"
             /\ profilePics' = PicAnswer(h, r)
       /\ out' = <<[ev |-> "new-message", acct |-> H.acct, jid |-> H.jid, id |-> H.cur.id]>>
       /\ handlers' = [handlers EXCEPT ![h].pc = "fmt", ![h].q = FALSE,
                                        ![h].existing = Existing(H.acct, H.jid)]
       /\ heap' = HoldExisting(H.acct, H.jid)
       /\ returned' = NoReturn
       /\ UNCHANGED <<lifeVars, supplied, chats, messages, contacts, pushNames, issued, expect>>

\* src: updateChatInList lines 576-580 on the object held
Record(obj, msg) ==
    [obj EXCEPT !.lastMessage = formatMessage(msg),
                !.timestamp = msg.ts,
                !.unreadCount = IF ~msg.fromMe THEN @ + 1 ELSE @]

\* src: getFormattedChats line 591: the chats that are listed
Listed(a) ==
    {j \in DOMAIN chats[a] :
        heap[chats[a][j]].lastMessage # NoLast \/ heap[chats[a][j]].conversationTimestamp # 0}

\* The chats whose picture a getFormattedChats started now will ask for.
PicPending(cs, hp, pics) ==
    {hp[cs[j]].id : j \in {k \in DOMAIN cs :
        hp[cs[k]].lastMessage # NoLast \/ hp[cs[k]].conversationTimestamp # 0}}
    \ DOMAIN pics

ExpectOf(a, j) == IF MapHas(expect[a], j) THEN expect[a][j] ELSE 0

\* updateChatInList lines 576-582: formatMessage has answered; the object
\* held is updated and stored, and getFormattedChats is called.
UpdateSet(h) ==
    LET H == handlers[h]
        obj == Record(heap[H.existing], H.cur)
        cs == [chats EXCEPT ![H.acct] = MapSet(@, H.jid, H.existing)]
        hp == [heap EXCEPT ![H.existing] = obj]
    IN /\ H.kind \in {"messages.upsert", "send-message"} /\ H.pc = "fmt"
       /\ obj.unreadCount <= MaxUnread
       /\ H.cur.fromMe \/ ExpectOf(H.acct, H.jid) < MaxUnread
       /\ chats' = cs
       /\ handlers' = [handlers EXCEPT ![h].pc = "list", ![h].existing = 0,
                          ![h].pend = PicPending(cs[H.acct], hp, profilePics[H.acct])]
       /\ heap' = Collect(hp, chats', handlers')
       /\ expect' = IF ~H.cur.fromMe
                    THEN [expect EXCEPT ![H.acct] = MapSet(@, H.jid, ExpectOf(H.acct, H.jid) + 1)]
                    ELSE expect
       /\ out' = <<>>
       /\ returned' = NoReturn
       /\ UNCHANGED <<lifeVars, supplied, messages, contacts, pushNames, profilePics, issued>>

\* src: getFormattedChats, as far as it changes state: the pictures of the
\* listed chats that were not cached are cached as the gateway answers.
ListAnswers(h) == [handlers[h].pend -> PicResults]

PicsAfter(h, f) ==
    [x \in (DOMAIN profilePics[handlers[h].acct]) \cup handlers[h].pend |->
        IF x \in handlers[h].pend THEN f[x] ELSE profilePics[handlers[h].acct][x]]

ChatsUpdateEv(a) == [ev |-> "chats-update", acct |-> a]

\* updateChatInList line 582 (and lines 350, 361, 416): getFormattedChats
\* has answered and the chat list is broadcast; the messages.upsert handler
\* then goes on with the rest of its batch, the other handlers end.
UpdateBroadcast(h) ==
    LET H == handlers[h]
    IN /\ H.kind # "idle"
       /\ H.pc = "list"
       /\ \E f \in ListAnswers(h) :
             /\ profilePics' = [profilePics EXCEPT ![H.acct] = PicsAfter(h, f)]
             /\ IF H.kind = "messages.upsert"
                THEN UpsertLoop(H.acct, h, H.rest, H.type, H.nbc + 1, PicsAfter(h, f))
                ELSE /\ Finish(h, H.kind, H.nbc + 1)
                     /\ UNCHANGED <<messages, contacts, pushNames>>
       /\ out' = <<ChatsUpdateEv(H.acct)>>
       /\ UNCHANGED <<lifeVars, supplied, chats, heap, issued, expect>>

(***************************************************************************)
(* send-message (lines 773-828), text messages                             *)
(***************************************************************************)
Error(m) == [ev |-> "error", message |-> m]

\* lines 774-785: the handler up to its await of sock.sendMessage, which
\* gives the message an id of its own.
SendBegin(S, a, jid) ==
    /\ IF a \notin registry \/ connectionState[a] # "connected"
       THEN /\ out' = <<Error("Conta nao conectada")>>
            /\ returned' = Ret("send-message", a, 0)
            /\ UNCHANGED <<handlers, issued>>
       ELSE /\ FreeSlots(S) # {}
            /\ \E i \in OutIds \ issued[a] :
                  /\ issued' = [issued EXCEPT ![a] = @ \cup {i}]
                  /\ handlers' = [handlers EXCEPT ![Least(FreeSlots(S))] =
                        [Idle EXCEPT !.kind = "send-message", !.pc = "send", !.acct = a,
                                     !.jid = jid, !.sk = sock[a], !.cur = Msg(jid, i, NoName)]]
            /\ out' = <<>>
            /\ returned' = NoReturn
    /\ UNCHANGED <<lifeVars, supplied, chats, heap, messages, contacts, pushNames, profilePics,
                   expect>>

LogOf(a, jid) == IF MapHas(messages[a], jid) THEN messages[a][jid] ELSE <<>>

\* lines 785 and 810-819: sock.sendMessage has answered with the message
\* sent, which is pushed on the chat's log.
SendSent(h) ==
    LET H == handlers[h]
    IN /\ H.kind = "send-message" /\ H.pc = "send"
       /\ H.sk # 0
       /\ messages' = [messages EXCEPT ![H.acct] =
                          MapSet(@, H.jid, Append(LogOf(H.acct, H.jid), H.cur))]
       /\ handlers' = [handlers EXCEPT ![h].pc = "ack"]
       /\ out' = <<>>
       /\ returned' = NoReturn
       /\ UNCHANGED <<lifeVars, supplied, chats, heap, contacts, pushNames, profilePics,
                      issued, expect>>

\* lines 824-827: sock.sendMessage threw (or sock was null)
SendFailed(h) ==
    LET H == handlers[h]
    IN /\ H.kind = "send-message" /\ H.pc = "send"
       /\ Finish(h, "send-message", 0)
       /\ out' = <<Error("Erro ao enviar mensagem")>>
       /\ UNCHANGED <<lifeVars, supplied, chats, heap, messages, contacts, pushNames, profilePics,
                      issued, expect>>

\* lines 816-822: the acknowledgment goes out and updateChatInList runs to
\* its first await.
SendAck(h) ==
    LET H == handlers[h]
    IN /\ H.kind = "send-message" /\ H.pc = "ack"
       /\ MapHas(chats[H.acct], H.jid) \/ FreeObjs # {}
       /\ out' = <<[ev |-> "message-sent", acct |-> H.acct, jid |-> H.jid, id |-> H.cur.id]>>
       /\ handlers' = [handlers EXCEPT ![h].pc = "fmt",
                                        ![h].existing = Existing(H.acct, H.jid)]
       /\ heap' = HoldExisting(H.acct, H.jid)
       /\ returned' = NoReturn
       /\ UNCHANGED <<lifeVars, supplied, chats, messages, contacts, pushNames, profilePics,
                      issued, expect>>


(***************************************************************************)
(* chats.upsert, chats.update (lines 346-362)                              *)
(***************************************************************************)
\* A chat record of the gateway; has: the optional fields it carries.
ChatFields == {"unreadCount", "conversationTimestamp"}
GwChat(j, u, c, n) ==
    [id |-> j, has |-> ChatFields, unreadCount |-> u, conversationTimestamp |-> c, name |-> n]
StoreGwChats == {GwChat(j, u, c, NoName) : j \in StoreJids, u \in {0, 1}, c \in {0, 1}}

\* A partial chat record of chats.update
ChatUpdate(j, F, u) ==
    [id |-> j, has |-> F, unreadCount |-> IF "unreadCount" \in F THEN u ELSE 0,
     conversationTimestamp |-> IF "conversationTimestamp" \in F THEN 1 ELSE 0, name |-> NoName]
StoreChatUpdates == {ChatUpdate(j, F, u) : j \in StoreJids, F \in SUBSET ChatFields, u \in {0, 1}}

ChatObj(c) == [id |-> c.id, unreadCount |-> c.unreadCount, lastMessage |-> NoLast,
               timestamp |-> 0, conversationTimestamp |-> c.conversationTimestamp]

\* An object id for a new object that replaces the entry of jid in chats[a].
NewObjFor(a, cs, jid) ==
    Least({o \in ObjIds :
             /\ \A h \in Slots : handlers[h].existing # o
             /\ \A b \in AccIds : \A j \in DOMAIN cs[b] :
                   cs[b][j] = o => (b = a /\ j = jid)})

\* src: lines 347-349 and 369-370: account.chats.set(chat.id, chat) for each
RECURSIVE SetChats(_, _, _, _)
SetChats(a, cs, hp, batch) ==
    IF batch = <<>> THEN [cs |-> cs, hp |-> hp]
    ELSE LET c == Head(batch)
             o == NewObjFor(a, cs, c.id)
         IN SetChats(a, [cs EXCEPT ![a] = MapSet(@, c.id, o)],
                     [hp EXCEPT ![o] = ChatObj(c)], Tail(batch))

\* src: Object.assign(chat, update)
Assign(obj, u) ==
    [obj EXCEPT !.id = u.id,
                !.unreadCount = IF "unreadCount" \in u.has THEN u.unreadCount ELSE @,
                !.conversationTimestamp =
                    IF "conversationTimestamp" \in u.has THEN u.conversationTimestamp ELSE @]

\* src: lines 354-360
RECURSIVE AssignChats(_, _, _)
AssignChats(cs, hp, updates) ==
    IF updates = <<>> THEN hp
    ELSE LET u == Head(updates)
         IN AssignChats(cs, IF MapHas(cs, u.id)
                            THEN [hp EXCEPT ![cs[u.id]] = Assign(@, u)] ELSE hp,
                        Tail(updates))

\* observation: the unread counter a chat record was given by the gateway
RECURSIVE ExpectSet(_, _, _)
ExpectSet(e, cs, batch) ==
    IF batch = <<>> THEN e
    ELSE LET c == Head(batch)
         IN ExpectSet(IF "unreadCount" \in c.has /\ MapHas(cs, c.id)
                      THEN MapSet(e, c.id, c.unreadCount) ELSE e, cs, Tail(batch))

ListHandler(kind, a, cs, hp) ==
    [Idle EXCEPT !.kind = kind, !.pc = "list", !.acct = a,
                 !.pend = PicPending(cs[a], hp, profilePics[a])]

ChatsUpsert(S, a, newChats) ==
    LET r == SetChats(a, chats, heap, newChats)
    IN /\ HasLiveSession(a)
       /\ FreeSlots(S) # {}
       /\ chats' = r.cs
       /\ handlers' = [handlers EXCEPT ![Least(FreeSlots(S))] =
                          ListHandler("chats.upsert", a, r.cs, r.hp)]
       /\ heap' = Collect(r.hp, chats', handlers')
       /\ expect' = [expect EXCEPT ![a] = ExpectSet(@, r.cs[a], newChats)]
       /\ out' = <<>>
       /\ returned' = NoReturn
       /\ UNCHANGED <<lifeVars, supplied, messages, contacts, pushNames, profilePics, issued>>

ChatsUpdate(S, a, updates) ==
    LET hp == AssignChats(chats[a], heap, updates)
    IN /\ HasLiveSession(a)
       /\ FreeSlots(S) # {}
       /\ heap' = hp
       /\ handlers' = [handlers EXCEPT ![Least(FreeSlots(S))] =
                          ListHandler("chats.update", a, chats, hp)]
       /\ expect' = [expect EXCEPT ![a] = ExpectSet(@, chats[a], updates)]
       /\ out' = <<>>
       /\ returned' = NoReturn
       /\ UNCHANGED <<lifeVars, supplied, chats, messages, contacts, pushNames, profilePics, issued>>

(***************************************************************************)
(* get-messages (lines 831-863)                                            *)
(***************************************************************************)
\* src: formattedMsgs.sort((a, b) => a.timestamp - b.timestamp), a stable sort
RECURSIVE InsertByTs(_, _)
InsertByTs(sorted, m) ==
    IF sorted = <<>> THEN <<m>>
    ELSE IF sorted[Len(sorted)].timestamp <= m.timestamp THEN Append(sorted, m)
    ELSE Append(InsertByTs(SubSeq(sorted, 1, Len(sorted) - 1), m), sorted[Len(sorted)])

RECURSIVE SortByTs(_)
SortByTs(q) ==
    IF q = <<>> THEN <<>> ELSE InsertByTs(SortByTs(SubSeq(q, 1, Len(q) - 1)), q[Len(q)])

GetMessagesBegin(S, a, jid) ==
    /\ IF a \notin registry \/ connectionState[a] # "connected"
       THEN /\ out' = <<Error("Conta nao conectada")>>
            /\ returned' = Ret("get-messages", a, 0)
            /\ UNCHANGED handlers
       ELSE /\ FreeSlots(S) # {}
            /\ handlers' = [handlers EXCEPT ![Least(FreeSlots(S))] =
                   [Idle EXCEPT !.kind = "get-messages", !.pc = "contact", !.acct = a,
                                !.jid = jid, !.hadLog = MapHas(messages[a], jid),
                                !.q = ~MapHas(profilePics[a], jid)]]
            /\ out' = <<>>
            /\ returned' = NoReturn
    /\ UNCHANGED <<lifeVars, supplied, chats, heap, messages, contacts, pushNames, profilePics,
                   issued, expect>>

\* lines 840-844: getContactInfo has answered; the stored messages are
\* mapped to their formatted form.
GetMessagesMap(h) ==
    LET H == handlers[h]
        stored == IF H.hadLog THEN LogOf(H.acct, H.jid) ELSE <<>>
    IN /\ H.kind = "get-messages" /\ H.pc = "contact"
       /\ \E r \in PicResults :
             /\ H.q \/ r = "null"
             /\ profilePics' = PicAnswer(h, r)
       /\ handlers' = [handlers EXCEPT ![h].pc = "format", ![h].q = FALSE,
                          ![h].snap = [k \in 1..Len(stored) |-> formatMessage(stored[k])]]
       /\ out' = <<>>
       /\ returned' = NoReturn
       /\ UNCHANGED <<lifeVars, supplied, chats, heap, messages, contacts, pushNames, issued, expect>>

\* A markRead that puts a fresh record in the place of the chat's record.
markReadFresh(a, jid) ==
    IF MapHas(chats[a], jid) THEN [heap EXCEPT ![chats[a][jid]] = NewChat(jid)] ELSE heap

\* src: lines 854-858
markRead(a, jid) ==
    IF MapHas(chats[a], jid) THEN [heap EXCEPT ![chats[a][jid]].unreadCount = 0] ELSE heap

\* lines 846-858: the list is sent and the chat marked read
GetMessagesEmit(h) ==
    LET H == handlers[h]
    IN /\ H.kind = "get-messages" /\ H.pc = "format"
       /\ out' = <<[ev |-> "messages", acct |-> H.acct, jid |-> H.jid,
                    messages |-> SortByTs(H.snap)]>>
       /\ heap' = markRead(H.acct, H.jid)
       /\ expect' = IF MapHas(chats[H.acct], H.jid)
                    THEN [expect EXCEPT ![H.acct] = MapSet(@, H.jid, 0)] ELSE expect
       /\ Finish(h, "get-messages", 0)
       /\ UNCHANGED <<lifeVars, supplied, chats, messages, contacts, pushNames, profilePics, issued>>


(***************************************************************************)
(* messaging-history.set (lines 365-417)                                   *)
(***************************************************************************)
\* src: lines 373-380: the names a synced chat carries
HistoryChatNames(st, c) ==
    IF c.name = NoName THEN st
    ELSE LET nj == normalizeJid(c.id)
             ph == getPhoneFromJid(c.id)
             cd == Contact(c.name, c.name, NoName)
         IN [st EXCEPT !.contacts = OSet(OSet(@, c.id, cd), nj, cd),
                       !.pushNames = MapSet(MapSet(@, nj, c.name), ph, c.name)]

\* src: lines 386-412 for one synced message
HistoryOne(st, msg) ==
    LET nj == normalizeJid(msg.jid)
        ph == getPhoneFromJid(msg.jid)
        named == msg.pushName # NoName /\ ~msg.fromMe
        cd == Contact(msg.pushName, msg.pushName, NoName)
        fill == named /\ (~OHas(st.contacts, nj) \/ OGet(st.contacts, nj).name = NoName)
    IN [messages |-> AppendDedup(st.messages, msg),
        pushNames |-> IF named
                      THEN MapSet(MapSet(MapSet(st.pushNames, nj, msg.pushName),
                                         ph, msg.pushName), msg.jid, msg.pushName)
                      ELSE st.pushNames,
        contacts |-> IF fill THEN OSet(OSet(st.contacts, nj, cd), msg.jid, cd)
                     ELSE st.contacts]

RECURSIVE HistoryNames(_, _)
HistoryNames(st, cs) ==
    IF cs = <<>> THEN st ELSE HistoryNames(HistoryChatNames(st, Head(cs)), Tail(cs))

RECURSIVE HistoryMessages(_, _)
HistoryMessages(st, ms) ==
    IF ms = <<>> THEN st ELSE HistoryMessages(HistoryOne(st, Head(ms)), Tail(ms))

HistorySet(S, a, syncedChats, syncedMessages) ==
    LET r == SetChats(a, chats, heap, syncedChats)
        st == HistoryMessages(HistoryNames(Stores(a), syncedChats), syncedMessages)
    IN /\ HasLiveSession(a)
       /\ Known(a, syncedMessages)
       /\ FreeSlots(S) # {}
       /\ chats' = r.cs
       /\ messages' = [messages EXCEPT ![a] = st.messages]
       /\ contacts' = [contacts EXCEPT ![a] = st.contacts]
       /\ pushNames' = [pushNames EXCEPT ![a] = st.pushNames]
       /\ handlers' = [handlers EXCEPT ![Least(FreeSlots(S))] =
                          ListHandler("messaging-history.set", a, r.cs, r.hp)]
       /\ heap' = Collect(r.hp, chats', handlers')
       /\ expect' = [expect EXCEPT ![a] = ExpectSet(@, r.cs[a], syncedChats)]
       /\ out' = <<>>
       /\ returned' = NoReturn
       /\ UNCHANGED <<lifeVars, supplied, profilePics, issued>>


(***************************************************************************)
(* contacts.upsert, contacts.update (lines 257-303) and the name           *)
(* getContactInfo resolves (lines 432-490)                                 *)
(***************************************************************************)
GwContact(j, n, nt, vn) == [id |-> j, name |-> n, notify |-> nt, verifiedName |-> vn]

\* src: lines 260, 438, 444
NameOf(c) == Or(Or(c.name, c.notify), c.verifiedName)

\* src: lines 259-277 for one contact
UpsertContact(st, c) ==
    LET name == NameOf(c)
        nj == normalizeJid(c.id)
        ph == getPhoneFromJid(c.id)
        contactData == Contact(name, c.notify, c.verifiedName)
    IN IF name = NoName THEN st
       ELSE [st EXCEPT !.contacts = OSet(OSet(@, c.id, contactData), nj, contactData),
                       !.pushNames = MapSet(MapSet(@, nj, name), ph, name)]

\* An update that prefers the stored notify name to the names it carries.
UpdateContactStale(st, u) ==
    LET existing == IF OHas(st.contacts, u.id) THEN OGet(st.contacts, u.id)
                    ELSE Contact(NoName, NoName, NoName)
        name == Or(existing.notify, Or(u.name, u.notify))
    IN IF name = NoName THEN st
       ELSE [st EXCEPT !.contacts =
                OSet(@, u.id, Contact(name, Or(u.notify, existing.notify),
                                      existing.verifiedName))]

\* src: lines 287-297 for one update
UpdateContact(st, u) ==
    LET existing == IF OHas(st.contacts, u.id) THEN OGet(st.contacts, u.id)
                    ELSE Contact(NoName, NoName, NoName)
        name == Or(Or(u.name, u.notify), existing.name)
    IN IF name = NoName THEN st
       ELSE [st EXCEPT !.contacts =
                OSet(@, u.id, Contact(name, Or(u.notify, existing.notify),
                                      existing.verifiedName))]

RECURSIVE ContactsFold(_, _, _)
ContactsFold(st, batch, isUpdate) ==
    IF batch = <<>> THEN st
    ELSE ContactsFold(IF isUpdate THEN UpdateContact(st, Head(batch))
                      ELSE UpsertContact(st, Head(batch)), Tail(batch), isUpdate)

\* observation: the ids for which a batch carries an explicit name
Explicit(batch) == {batch[k].id : k \in {i \in 1..Len(batch) : batch[i].name # NoName}}

\* The two handlers: the batch is merged, and when the account is connected
\* getFormattedChats is called and the chat list broadcast when it answers.
ContactsEvent(S, a, batch, isUpdate) ==
    LET st == ContactsFold(Stores(a), batch, isUpdate)
        kind == IF isUpdate THEN "contacts.update" ELSE "contacts.upsert"
    IN /\ HasLiveSession(a)
       /\ contacts' = [contacts EXCEPT ![a] = st.contacts]
       /\ pushNames' = [pushNames EXCEPT ![a] = st.pushNames]
       /\ supplied' = [supplied EXCEPT ![a] = @ \cup Explicit(batch)]
       /\ IF connectionState[a] = "connected"
          THEN /\ FreeSlots(S) # {}
               /\ handlers' = [handlers EXCEPT ![Least(FreeSlots(S))] =
                                  ListHandler(kind, a, chats, heap)]
               /\ returned' = NoReturn
          ELSE /\ returned' = Ret(kind, a, 0)
               /\ UNCHANGED handlers
       /\ out' = <<>>
       /\ UNCHANGED <<lifeVars, chats, heap, messages, profilePics, issued, expect>>

ContactsUpsert(S, a, newContacts) == ContactsEvent(S, a, newContacts, FALSE)
ContactsUpdate(S, a, updates) == ContactsEvent(S, a, updates, TRUE)

\* src: getContactInfo lines 436-439
DirectName(cs, nj, jid) ==
    IF OHas(cs, nj) THEN NameOf(OGet(cs, nj))
    ELSE IF OHas(cs, jid) THEN NameOf(OGet(cs, jid))
    ELSE NoName

\* src: lines 441-448: the first entry of the same phone that has a name
ScanName(cs, ph) ==
    LET hits == {i \in 1..Len(cs) : getPhoneFromJid(cs[i].key) = ph /\ NameOf(cs[i].val) # NoName}
    IN IF hits = {} THEN NoName ELSE NameOf(cs[Least(hits)].val)

\* src: line 451
PushName(pn, nj, jid, ph) ==
    Or(Or(IF MapHas(pn, nj) THEN pn[nj] ELSE NoName,
          IF MapHas(pn, jid) THEN pn[jid] ELSE NoName),
       IF MapHas(pn, ph) THEN pn[ph] ELSE NoName)

\* The number with a plus sign, whatever its form.
FormatPlain(number) == "+" \o number

\* src: lines 475-488, the name made from a phone number
FormatNumber(number) ==
    IF Len(number) >= 12 /\ SubSeq(number, 1, 2) = "55"
    THEN LET ddd == SubSeq(number, 3, 4)
             rest == SubSeq(number, 5, Len(number))
         IN IF Len(rest) = 9
            THEN "(" \o ddd \o ") " \o SubSeq(rest, 1, 5) \o "-" \o SubSeq(rest, 6, 9)
            ELSE IF Len(rest) = 8
            THEN "(" \o ddd \o ") " \o SubSeq(rest, 1, 4) \o "-" \o SubSeq(rest, 5, 8)
            ELSE "+" \o number
    ELSE "+" \o number

\* src: lines 470-489, the name made from the id of a chat that is no group
FallbackName(jid) ==
    CASE jid.server = "lid" -> "Canal"
      [] jid.server = "newsletter" -> "Newsletter"
      [] OTHER -> FormatNumber(jid.user)

\* src: getContactInfo, the name it returns for a chat that is no group
ResolveName(a, jid) ==
    LET nj == normalizeJid(jid)
        ph == getPhoneFromJid(jid)
        n1 == DirectName(contacts[a], nj, jid)
        n2 == Or(n1, ScanName(contacts[a], ph))
        n3 == Or(n2, PushName(pushNames[a], nj, jid, ph))
    IN Or(n3, FallbackName(jid))

(***************************************************************************)
(* Account lifecycle: registry, gateway sessions, reconnection timers, the *)
(* credential directory and the durable record accounts.json               *)
(***************************************************************************)
Phones == {"5599"}

\* The reason code of a close: the gateway's logged-out code, or another
LoggedOut == "loggedOut"
Reasons == {LoggedOut, "connectionLost"}

\* A decision that takes every close for a logged-out one
neverReconnect(reason) == FALSE

\* src: line 220
shouldReconnect(reason) == reason # LoggedOut

\* src: saveAccountsToFile: the registry as it is written
Saved(reg, nm, ph) == [a \in reg |-> [name |-> nm[a], phoneNumber |-> ph[a]]]

NoTimers == [fresh |-> 0, stale |-> 0]
NoConn == [cmd |-> 0, timer |-> 0, stale |-> 0]

\* Reconnections of account a that are scheduled or under way
Reconnecting(a) == timers[a].fresh + timers[a].stale + conn[a].timer + conn[a].stale

\* A closed session nothing refers to any more is reclaimed.
Sweep(ss, sk) ==
    [s \in SessIds |->
        IF ss[s].status = "closed" /\ (\A a \in AccIds : sk[a] # s)
        THEN NoSession ELSE ss[s]]

FreeSess == {s \in SessIds : sessions[s].status = "free"}

AccountsUpdate == [ev |-> "accounts-update"]
AccountStatus(a, st) == [ev |-> "account-status", acct |-> a, status |-> st]

\* src: Account constructor line 98, the name of an account made without one
DefaultName(a) == IF a = "a1" THEN "Conta a1" ELSE "Conta a2"

\* src: create-account handler, called without a name; the id generated is a
\* new one
CreateAccount(a) ==
    /\ a \notin created
    /\ created' = created \cup {a}
    /\ registry' = registry \cup {a}
    /\ accountName' = [accountName EXCEPT ![a] = DefaultName(a)]
    /\ file' = Saved(registry', accountName', phoneNumber)
    /\ out' = <<[ev |-> "account-created", acct |-> a], AccountsUpdate>>
    /\ returned' = Ret("create-account", a, 0)
    /\ UNCHANGED <<uploads, connectionState, sock, sessions, authFolder, phoneNumber, timers,
                   conn, pending, storeVars>>

\* src: connectAccount lines 178-183: the directory is made if it is
\* missing, then the call suspends; by: who called (the connect-account
\* command, a reconnection timer, or a timer set before a delete or logout).
ConnectStart(a, by) ==
    /\ authFolder' = [authFolder EXCEPT ![a] = IF @ = "absent" THEN "empty" ELSE @]
    /\ conn' = [conn EXCEPT ![a][by] = @ + 1]

\* src: connectAccount lines 186-206 and on: the session is made and becomes
\* account.sock, and the handlers are registered on it.
ConnectMake(a, by) ==
    /\ conn[a][by] > 0
    /\ FreeSess # {}
    /\ LET s == Least(FreeSess)
           sk == [sock EXCEPT ![a] = s]
       IN /\ sock' = sk
          /\ sessions' = Sweep([sessions EXCEPT ![s] =
                 [acct |-> a, status |-> "live", by |-> by]], sk)
    /\ conn' = [conn EXCEPT ![a][by] = @ - 1]
    /\ out' = <<>>
    /\ returned' = NoReturn
    /\ UNCHANGED <<registry, accountName, uploads, connectionState, authFolder, phoneNumber, file, timers,
                   pending, created, storeVars>>

\* src: connect-account handler
ConnectCommand(a) ==
    /\ IF a \notin registry
       THEN /\ out' = <<[ev |-> "error", message |-> "Conta nao encontrada"]>>
            /\ UNCHANGED <<authFolder, conn>>
       ELSE IF connectionState[a] = "connected"
       THEN /\ out' = <<AccountStatus(a, "connected")>>
            /\ UNCHANGED <<authFolder, conn>>
       ELSE IF sock[a] = 0 \/ connectionState[a] = "disconnected"
       THEN /\ conn[a].cmd < MaxInFlight
            /\ ConnectStart(a, "cmd")
            /\ out' = <<>>
       ELSE /\ out' = <<>>
            /\ UNCHANGED <<authFolder, conn>>
    /\ returned' = Ret("connect-account", a, 0)
    /\ UNCHANGED <<registry, accountName, uploads, connectionState, sock, sessions, phoneNumber, file, timers,
                   pending, created, storeVars>>

\* src: the timer of line 228 fires and calls connectAccount
TimerFire(a, k) ==
    /\ timers[a][k] > 0
    /\ timers' = [timers EXCEPT ![a][k] = @ - 1]
    /\ ConnectStart(a, IF k = "fresh" THEN "timer" ELSE "stale")
    /\ out' = <<>>
    /\ returned' = Ret("connectAccount", a, 0)
    /\ UNCHANGED <<registry, accountName, uploads, connectionState, sock, sessions, phoneNumber, file,
                   pending, created, storeVars>>

\* A qr handler that puts every account in the qr state.
QrAll(s) ==
    /\ sessions[s].status = "live"
    /\ connectionState' = [a \in AccIds |-> "qr"]
    /\ out' = <<[ev |-> "account-qr", acct |-> sessions[s].acct],
                AccountStatus(sessions[s].acct, "qr")>>
    /\ returned' = Ret("qr", sessions[s].acct, 0)
    /\ UNCHANGED <<registry, accountName, uploads, sock, sessions, authFolder, phoneNumber, file, timers, conn,
                   pending, created, storeVars>>

\* src: connection.update with a qr, lines 212-217.  The handler does
\* nothing before its await of QRCode.toDataURL; the step is its resumption,
\* taken while the session that sent the code is live.
Qr(s) ==
    /\ sessions[s].status = "live"
    /\ connectionState' = [connectionState EXCEPT ![sessions[s].acct] = "qr"]
    /\ out' = <<[ev |-> "account-qr", acct |-> sessions[s].acct],
                AccountStatus(sessions[s].acct, "qr")>>
    /\ returned' = Ret("qr", sessions[s].acct, 0)
    /\ UNCHANGED <<registry, accountName, uploads, sock, sessions, authFolder, phoneNumber, file, timers, conn,
                   pending, created, storeVars>>

\* src: connection.update with connection 'close', lines 219-235.  A session
\* on which logout() was called ends with the logged-out code.
Close(s, reason) ==
    LET a == sessions[s].acct
    IN /\ \/ sessions[s].status = "live"
          \/ sessions[s].status = "ending" /\ reason = LoggedOut
       /\ connectionState' = [connectionState EXCEPT ![a] = "disconnected"]
       /\ sessions' = Sweep([sessions EXCEPT ![s].status = "closed"], sock)
       /\ IF shouldReconnect(reason)
          THEN /\ Reconnecting(a) < MaxTimers
               /\ timers' = [timers EXCEPT ![a].fresh = @ + 1]
               /\ UNCHANGED <<authFolder, phoneNumber, file>>
          ELSE /\ authFolder' = [authFolder EXCEPT ![a] = "empty"]
               /\ phoneNumber' = [phoneNumber EXCEPT ![a] = NoPhone]
               /\ file' = Saved(registry, accountName, phoneNumber')
               /\ UNCHANGED timers
       /\ out' = <<AccountStatus(a, "disconnected"), AccountsUpdate>>
       /\ returned' = Ret(IF reason = LoggedOut THEN "close-loggedOut" ELSE "close", a, 0)
       /\ UNCHANGED <<registry, accountName, uploads, sock, conn, pending, created, storeVars>>

\* src: connection.update with connection 'open', lines 236-251; u: the
\* phone of sock.user.id, NoPhone when the session has no user id
Open(s, u) ==
    LET a == sessions[s].acct
    IN /\ sessions[s].status = "live"
       /\ connectionState' = [connectionState EXCEPT ![a] = "connected"]
       /\ phoneNumber' = IF u # NoPhone THEN [phoneNumber EXCEPT ![a] = u] ELSE phoneNumber
       /\ file' = IF u # NoPhone THEN Saved(registry, accountName, phoneNumber') ELSE file
       /\ out' = <<AccountStatus(a, "connected"), AccountsUpdate>>
       /\ returned' = Ret("open", a, 0)
       /\ UNCHANGED <<registry, accountName, uploads, sock, sessions, authFolder, timers, conn, pending, created,
                      storeVars>>

\* src: line 254: saveCreds writes the credentials into the directory
CredsUpdate(s) ==
    LET a == sessions[s].acct
    IN /\ sessions[s].status = "live"
       /\ authFolder[a] = "empty"
       /\ authFolder' = [authFolder EXCEPT ![a] = "creds"]
       /\ out' = <<>>
       /\ returned' = NoReturn
       /\ UNCHANGED <<registry, accountName, uploads, connectionState, sock, sessions, phoneNumber, file, timers,
                      conn, pending, created, storeVars>>

(***************************************************************************)
(* SpecStore: the chat and message stores of one connected account under   *)
(* concurrent handlers                                                     *)
(***************************************************************************)

\* The state after create-account, connect-account, the gateway's open
\* event and a start-new-chat for the chat (which looks up and caches its
\* picture and changes nothing else).
InitStore ==
    /\ registry = {A1}
    /\ connectionState = [a \in AccIds |-> IF a = A1 THEN "connected" ELSE "disconnected"]
    /\ sock = [a \in AccIds |-> IF a = A1 THEN 1 ELSE 0]
    /\ sessions = [s \in SessIds |->
                     IF s = 1 THEN [acct |-> A1, status |-> "live", by |-> "cmd"]
                     ELSE NoSession]
    /\ authFolder = [a \in AccIds |-> IF a = A1 THEN "creds" ELSE "absent"]
    /\ phoneNumber = [a \in AccIds |-> IF a = A1 THEN "5599" ELSE NoPhone]
    /\ accountName = [a \in AccIds |-> DefaultName(a)]
    /\ uploads = {}
    /\ file = Saved({A1}, accountName, phoneNumber)
    /\ timers = [a \in AccIds |-> NoTimers]
    /\ conn = [a \in AccIds |-> NoConn]
    /\ pending = [a \in AccIds |-> {}]
    /\ created = {A1}
    /\ supplied = [a \in AccIds |-> {}]
    /\ chats = [a \in AccIds |-> EmptyMap]
    /\ heap = [o \in ObjIds |-> FreeObj]
    /\ messages = [a \in AccIds |-> EmptyMap]
    /\ contacts = [a \in AccIds |-> <<>>]
    /\ pushNames = [a \in AccIds |-> EmptyMap]
    /\ profilePics = [a \in AccIds |-> IF a = A1 THEN [j \in StoreJids |-> "url"] ELSE EmptyMap]
    /\ handlers = [h \in Slots |-> Idle]
    /\ issued = [a \in AccIds |-> {}]
    /\ out = <<>>
    /\ returned = NoReturn
    /\ expect = [a \in AccIds |-> EmptyMap]

LiveSingles == {<<m>> : m \in StoreMsgs}

UpdateChatSteps ==
    \/ \E h \in Slots : UpsertNotify(h)
    \/ \E h \in Slots : UpdateSet(h)
    \/ \E h \in Slots : UpdateBroadcast(h)

NextStore ==
    \/ \E b \in LiveSingles, t \in {"notify", "append"} : UpsertBegin(Slots, A1, b, t)
    \/ UpdateChatSteps
    \/ \E j \in StoreJids : SendBegin(Slots, A1, j)
    \/ \E h \in Slots : SendSent(h)
    \/ \E h \in Slots : SendFailed(h)
    \/ \E h \in Slots : SendAck(h)

SpecStore == InitStore /\ [][NextStore]_vars

(***************************************************************************)
(* SpecRead: live messages against get-messages reads of the chat          *)
(***************************************************************************)
NextRead ==
    \/ \E b \in LiveSingles, t \in {"notify", "append"} : UpsertBegin(Slots, A1, b, t)
    \/ UpdateChatSteps
    \/ \E j \in StoreJids : GetMessagesBegin(Slots, A1, j)
    \/ \E h \in Slots : GetMessagesMap(h)
    \/ \E h \in Slots : GetMessagesEmit(h)

SpecRead == InitStore /\ [][NextRead]_vars

(***************************************************************************)
(* SpecBatch: the gateway's batch events, one handler at a time            *)
(***************************************************************************)
One == {1}

NextBatch ==
    \/ \E b \in StoreBatches, t \in {"notify", "append"} : UpsertBegin(One, A1, b, t)
    \/ UpdateChatSteps
    \/ \E c \in StoreGwChats : ChatsUpsert(One, A1, <<c>>)
    \/ \E u \in StoreChatUpdates : ChatsUpdate(One, A1, <<u>>)
    \/ \E c \in SeqsUpTo(StoreGwChats, 1), b \in SeqsUpTo(StoreMsgs, MaxBatch) :
          HistorySet(One, A1, c, b)

SpecBatch == InitStore /\ [][NextBatch]_vars

\* src: account.sock.logout(): a live session starts to end
LogoutCall(a) ==
    IF sessions[sock[a]].status = "live"
    THEN [sessions EXCEPT ![sock[a]].status = "ending"] ELSE sessions

\* logout() has answered: the sessions of a that were ending have ended
Ended(a) ==
    [s \in SessIds |->
        IF sessions[s].acct = a /\ sessions[s].status = "ending"
        THEN [sessions[s] EXCEPT !.status = "closed"] ELSE sessions[s]]

\* observation: the timers that were set before a delete or logout
Stale(t) == [fresh |-> 0, stale |-> t.fresh + t.stale]

\* src: delete-account lines 702-708
DeleteFinish(a) ==
    /\ authFolder' = [authFolder EXCEPT ![a] = "absent"]
    /\ registry' = registry \ {a}
    /\ file' = Saved(registry', accountName, phoneNumber)
    /\ timers' = [timers EXCEPT ![a] = Stale(@)]
    /\ out' = <<AccountsUpdate>>
    /\ returned' = Ret("delete-account", a, 0)

\* src: delete-account handler up to its await of sock.logout(), or to its
\* end when the account has no session
DeleteBegin(a) ==
    /\ a \in registry
    /\ IF sock[a] # 0
       THEN /\ "delete" \notin pending[a]
            /\ pending' = [pending EXCEPT ![a] = @ \cup {"delete"}]
            /\ sessions' = LogoutCall(a)
            /\ out' = <<>>
            /\ returned' = NoReturn
            /\ UNCHANGED <<registry, accountName, uploads, authFolder, file, timers>>
       ELSE /\ DeleteFinish(a)
            /\ UNCHANGED <<sessions, pending>>
    /\ UNCHANGED <<accountName, uploads, connectionState, sock, phoneNumber, conn, created, storeVars>>

\* src: delete-account lines 700-709, after the await
DeleteEnd(a) ==
    /\ "delete" \in pending[a]
    /\ pending' = [pending EXCEPT ![a] = @ \ {"delete"}]
    /\ sock' = [sock EXCEPT ![a] = 0]
    /\ sessions' = Sweep(Ended(a), sock')
    /\ DeleteFinish(a)
    /\ UNCHANGED <<accountName, uploads, connectionState, phoneNumber, conn, created, storeVars>>

\* src: logout-account handler up to its await of sock.logout()
LogoutBegin(a) ==
    /\ a \in registry /\ sock[a] # 0
    /\ "logout" \notin pending[a]
    /\ pending' = [pending EXCEPT ![a] = @ \cup {"logout"}]
    /\ sessions' = LogoutCall(a)
    /\ out' = <<>>
    /\ returned' = NoReturn
    /\ UNCHANGED <<registry, accountName, uploads, connectionState, sock, authFolder, phoneNumber, file, timers,
                   conn, created, storeVars>>

\* src: logout-account lines 718-733, after the await
LogoutEnd(a) ==
    /\ "logout" \in pending[a]
    /\ pending' = [pending EXCEPT ![a] = @ \ {"logout"}]
    /\ sock' = [sock EXCEPT ![a] = 0]
    /\ sessions' = Sweep(Ended(a), sock')
    /\ connectionState' = [connectionState EXCEPT ![a] = "disconnected"]
    /\ chats' = [chats EXCEPT ![a] = EmptyMap]
    /\ heap' = Collect(heap, chats', handlers)
    /\ messages' = [messages EXCEPT ![a] = EmptyMap]
    /\ contacts' = [contacts EXCEPT ![a] = <<>>]
    /\ profilePics' = [profilePics EXCEPT ![a] = EmptyMap]
    /\ expect' = [expect EXCEPT ![a] = EmptyMap]
    /\ supplied' = [supplied EXCEPT ![a] = {}]
    /\ phoneNumber' = [phoneNumber EXCEPT ![a] = NoPhone]
    /\ authFolder' = [authFolder EXCEPT ![a] = IF @ = "absent" THEN @ ELSE "empty"]
    /\ file' = Saved(registry, accountName, phoneNumber')
    /\ timers' = [timers EXCEPT ![a] = Stale(@)]
    /\ out' = <<AccountsUpdate, AccountStatus(a, "disconnected")>>
    /\ returned' = Ret("logout-account", a, 0)
    /\ UNCHANGED <<registry, accountName, uploads, conn, created, pushNames, handlers, issued>>

(***************************************************************************)
(* SpecLife: the lifecycle of an account from an empty registry            *)
(***************************************************************************)
InitLife ==
    /\ registry = {}
    /\ connectionState = [a \in AccIds |-> "disconnected"]
    /\ sock = [a \in AccIds |-> 0]
    /\ sessions = [s \in SessIds |-> NoSession]
    /\ authFolder = [a \in AccIds |-> "absent"]
    /\ phoneNumber = [a \in AccIds |-> NoPhone]
    /\ accountName = [a \in AccIds |-> DefaultName(a)]
    /\ uploads = {}
    /\ file = EmptyMap
    /\ timers = [a \in AccIds |-> NoTimers]
    /\ conn = [a \in AccIds |-> NoConn]
    /\ pending = [a \in AccIds |-> {}]
    /\ created = {}
    /\ chats = [a \in AccIds |-> EmptyMap]
    /\ heap = [o \in ObjIds |-> FreeObj]
    /\ messages = [a \in AccIds |-> EmptyMap]
    /\ contacts = [a \in AccIds |-> <<>>]
    /\ pushNames = [a \in AccIds |-> EmptyMap]
    /\ profilePics = [a \in AccIds |-> EmptyMap]
    /\ handlers = [h \in Slots |-> Idle]
    /\ issued = [a \in AccIds |-> {}]
    /\ out = <<>>
    /\ returned = NoReturn
    /\ expect = [a \in AccIds |-> EmptyMap]
    /\ supplied = [a \in AccIds |-> {}]

LifeAccs == {A1}

\* A replayed message that carries the sender's push name
LifeBatches == {<<Msg(j, 1, "Ann")>> : j \in StoreJids}

NextLife ==
    \/ \E a \in LifeAccs : CreateAccount(a)
    \/ \E a \in LifeAccs : ConnectCommand(a)
    \/ \E a \in LifeAccs, by \in {"cmd", "timer", "stale"} : ConnectMake(a, by)
    \/ \E a \in LifeAccs, k \in {"fresh", "stale"} : TimerFire(a, k)
    \/ \E s \in SessIds : Qr(s)
    \/ \E s \in SessIds, r \in Reasons : Close(s, r)
    \/ \E s \in SessIds, u \in Phones \cup {NoPhone} : Open(s, u)
    \/ \E s \in SessIds : CredsUpdate(s)
    \/ \E a \in LifeAccs : DeleteBegin(a)
    \/ \E a \in LifeAccs : DeleteEnd(a)
    \/ \E a \in LifeAccs : LogoutBegin(a)
    \/ \E a \in LifeAccs : LogoutEnd(a)

SpecLife == InitLife /\ [][NextLife]_vars

(***************************************************************************)
(* SpecReconnect: closes, reconnection timers and the commands that end an *)
(* account's session (the events that touch neither timers nor sessions    *)
(* are left out), with the timers firing                                   *)
(***************************************************************************)
NextReconnect ==
    \/ \E a \in LifeAccs : CreateAccount(a)
    \/ \E a \in LifeAccs : ConnectCommand(a)
    \/ \E a \in LifeAccs, by \in {"cmd", "timer", "stale"} : ConnectMake(a, by)
    \/ \E a \in LifeAccs, k \in {"fresh", "stale"} : TimerFire(a, k)
    \/ \E s \in SessIds, r \in Reasons : Close(s, r)
    \/ \E a \in LifeAccs : DeleteBegin(a)
    \/ \E a \in LifeAccs : DeleteEnd(a)
    \/ \E a \in LifeAccs : LogoutBegin(a)
    \/ \E a \in LifeAccs : LogoutEnd(a)

\* The timer of line 228 fires once its delay has passed.
TimersFire == \A a \in LifeAccs : WF_vars(\E k \in {"fresh", "stale"} : TimerFire(a, k))

SpecReconnect == InitLife /\ [][NextReconnect]_vars /\ TimersFire

(***************************************************************************)
(* SpecLogout: a connected account with stored messages and names is       *)
(* logged out, by the command or by the gateway                            *)
(***************************************************************************)
NextLogout ==
    \/ \E b \in LifeBatches : UpsertBegin(One, A1, b, "append")
    \/ ConnectCommand(A1)
    \/ \E by \in {"cmd", "timer", "stale"} : ConnectMake(A1, by)
    \/ \E k \in {"fresh", "stale"} : TimerFire(A1, k)
    \/ \E s \in SessIds, r \in Reasons : Close(s, r)
    \/ \E s \in SessIds, u \in Phones \cup {NoPhone} : Open(s, u)
    \/ LogoutBegin(A1)
    \/ LogoutEnd(A1)

SpecLogout == InitStore /\ [][NextLogout]_vars

(***************************************************************************)
(* SpecContacts: the gateway's contact events, and messages that carry     *)
(* push names, on a connected account                                      *)
(***************************************************************************)
ContactJids == StoreJids
ExplicitNames == {"Alice", "Alicia"}

StoreContacts ==
    {GwContact(j, n, nt, vn) : j \in ContactJids, n \in {NoName, "Alice"},
                               nt \in {NoName, "ali"}, vn \in {NoName, "Alice Ltd"}}
StoreContactUpdates ==
    {GwContact(j, n, nt, NoName) : j \in ContactJids, n \in {NoName, "Alicia"},
                                   nt \in {NoName, "ali2"}}
NamedMsgs == {Msg(j, 1, "Ann") : j \in ContactJids}

NextContacts ==
    \/ \E c \in StoreContacts : ContactsUpsert(One, A1, <<c>>)
    \/ \E u \in StoreContactUpdates : ContactsUpdate(One, A1, <<u>>)
    \/ \E m \in NamedMsgs : UpsertBegin(One, A1, <<m>>, "append")
    \/ \E m \in NamedMsgs : HistorySet(One, A1, <<>>, <<m>>)
    \/ \E h \in One : UpdateBroadcast(h)

SpecContacts == InitStore /\ [][NextContacts]_vars

(***************************************************************************)
(* Properties of the message and chat stores                               *)
(***************************************************************************)
ChatUnread(a, j) == IF MapHas(chats[a], j) THEN heap[chats[a][j]].unreadCount ELSE 0

AllIdle == \A h \in Slots : handlers[h].kind = "idle"

\* C1: after any interleaving of live batches and send-message commands no
\* chat's message log holds two entries with the same message id.
C1_NoDuplicateIds ==
    \A a \in AccIds : \A j \in DOMAIN messages[a] :
        \A k, l \in 1..Len(messages[a][j]) :
            messages[a][j][k].id = messages[a][j][l].id => k = l

\* C6: once all handlers have finished, a chat's unread counter equals the
\* number of inbound live messages folded into it (no lost update, also when
\* the chat record did not exist before).
C6_NoLostUpdate ==
    AllIdle => \A a \in AccIds : \A j \in DOMAIN chats[a] : ChatUnread(a, j) = ExpectOf(a, j)

GatewayBatchKinds == {"messages.upsert", "chats.upsert", "chats.update", "messaging-history.set"}

\* C7: the handler of one gateway batch event broadcasts the chat list once,
\* whatever the number of items in the batch: never once per item.
C7_OneBroadcastPerBatch ==
    returned.kind \in GatewayBatchKinds => returned.nbc <= 1

\* The step in which the handler in slot h records its message on the chat
\* (updateChatInList lines 577-581).
RecordStep(h) == handlers[h].pc = "fmt" /\ handlers'[h].pc = "list"

\* The step in which a live batch is taken whose messages are all outbound
\* or of the replay class: the handler runs to its end.
AppendOnlyStep == returned'.kind = "messages.upsert" /\ returned'.nbc = 0

\* C8: recording a message on a chat sets the chat's last message and
\* timestamp from it and changes the chat's unread counter by +1 when the
\* message is inbound and by 0 when it is outbound; a live batch of outbound
\* or replayed messages changes no chat and emits no new-message.
C8_RecordActivity ==
    [][(\A h \in Slots : RecordStep(h) =>
           LET a == handlers[h].acct
               j == handlers[h].jid
               m == handlers[h].cur
               c == heap'[chats'[a][j]]
           IN /\ c.lastMessage = formatMessage(m)
              /\ c.timestamp = m.ts
              /\ c.unreadCount = ChatUnread(a, j) + (IF m.fromMe THEN 0 ELSE 1))
       /\ (AppendOnlyStep => chats' = chats /\ heap' = heap /\ out' = <<>>)]_vars

\* The step in which the get-messages handler in slot h sends the list and
\* marks the chat read.
MarkReadStep(h) == handlers[h].kind = "get-messages" /\ handlers[h].pc = "format"
                   /\ handlers'[h].kind = "idle"

\* C9: markRead on a known chat sets its unread counter to 0 and changes no
\* other chat field, on an unknown chat it creates no record and changes
\* nothing, and recording one inbound message right after it leaves the
\* counter at 1.
C9_MarkRead ==
    [][\A h \in Slots : MarkReadStep(h) =>
          LET a == handlers[h].acct
              j == handlers[h].jid
          IN /\ chats' = chats
             /\ IF MapHas(chats[a], j)
                THEN /\ heap' = [heap EXCEPT ![chats[a][j]].unreadCount = 0]
                     /\ \A i \in InIds :
                           Record(heap'[chats[a][j]], Msg(j, i, NoName)).unreadCount = 1
                ELSE heap' = heap]_vars

\* C9 witness: a get-messages handler has just marked read a chat that has
\* a last message, and another one has just found the chat unknown.
C9_Witness ==
    /\ returned.kind = "get-messages"
    /\ Len(out) = 1 /\ out[1].ev = "messages"
    /\ MapHas(chats[A1], out[1].jid)
    /\ heap[chats[A1][out[1].jid]].lastMessage # NoLast
    /\ ChatUnread(A1, out[1].jid) = 0
    /\ ExpectOf(A1, out[1].jid) = 0
    /\ Len(out[1].messages) = 2

(***************************************************************************)
(* Properties of the account lifecycle                                     *)
(***************************************************************************)
\* C2: a reconnection scheduled before a delete-account or logout-account
\* that has completed is canceled: no timer set before it opens a gateway
\* session afterwards.
C2_CanceledByDeleteOrLogout ==
    \A s \in SessIds : sessions[s].status # "free" => sessions[s].by # "stale"

\* The step that handles a close of a session of account a
CloseStep(a, kind) == returned' = Ret(kind, a, 0) /\ connectionState'[a] = "disconnected"

\* C3: a close with the logged-out code schedules no reconnection, a close
\* with another code schedules one, and every such close is eventually
\* followed by a connection attempt for the same account.
C3_RecoverableCloseReconnects ==
    /\ [][\A a \in AccIds :
            /\ CloseStep(a, "close-loggedOut") => timers' = timers
            /\ CloseStep(a, "close") => timers'[a].fresh = timers[a].fresh + 1]_vars
    /\ \A a \in LifeAccs :
          (returned = Ret("close", a, 0)) ~> (returned = Ret("connectAccount", a, 0))

\* C3 witness: the timer of a recoverable close has fired and connectAccount
\* runs for an account that is disconnected and has had a session.
C3_Witness ==
    /\ returned = Ret("connectAccount", A1, 0)
    /\ connectionState[A1] = "disconnected"
    /\ sock[A1] # 0
    /\ conn[A1].timer = 1
    /\ A1 \in registry

StoresEmpty(a) ==
    /\ chats[a] = EmptyMap /\ messages[a] = EmptyMap /\ contacts[a] = <<>>
    /\ pushNames[a] = EmptyMap /\ profilePics[a] = EmptyMap

\* C4: after a terminal logout, by the logout-account command or by a close
\* with the logged-out code, the credential material is removed, every
\* in-account store is empty, the phone number is null and the durable
\* record lists the account without a phone number.
C4_TerminalLogoutPurges ==
    returned.kind \in {"logout-account", "close-loggedOut"} =>
        /\ authFolder[returned.acct] # "creds"
        /\ StoresEmpty(returned.acct)
        /\ phoneNumber[returned.acct] = NoPhone
        /\ returned.acct \in DOMAIN file /\ file[returned.acct].phoneNumber = NoPhone

\* C5: once delete-account has completed for an account, the account is in
\* neither the registry nor the durable record and it has no credential
\* directory, at every later state.
C5_DeletedStaysDeleted ==
    \A a \in created \ registry :
        /\ a \notin DOMAIN file
        /\ authFolder[a] = "absent"

(***************************************************************************)
(* Properties of the contact directory                                     *)
(***************************************************************************)
\* C10: the name resolved for a contact obeys the precedence explicit >
\* notify > verified: once the gateway has supplied an explicit name for an
\* identifier, the name resolved for it is an explicit name.
C10_ExplicitNameWins ==
    \A a \in AccIds : \A j \in supplied[a] : ResolveName(a, j) \in ExplicitNames

BlankContact == Contact(NoName, NoName, NoName)
StoredContact(cs, j) == IF OHas(cs, j) THEN OGet(cs, j) ELSE BlankContact

\* C11: a contact incremental update changes only the name fields it
\* carries: the fields it omits keep their stored value, the records of
\* other ids are untouched, and an update without a name for an id without a
\* record stores nothing.
C11_UpdateKeepsOmitted ==
    \A u \in StoreContactUpdates :
        LET cs == contacts[A1]
            new == UpdateContact(Stores(A1), u).contacts
            o == StoredContact(cs, u.id)
            n == StoredContact(new, u.id)
        IN /\ (~OHas(cs, u.id) /\ u.name = NoName /\ u.notify = NoName) => new = cs
           /\ OHas(cs, u.id) =>
                 /\ (u.name = NoName /\ o.name \in ExplicitNames) => n.name = o.name
                 /\ u.notify = NoName => n.notify = o.notify
                 /\ n.verifiedName = o.verifiedName
           /\ \A j \in OKeys(cs) \ {u.id} : OGet(new, j) = OGet(cs, j)

(***************************************************************************)
(* SpecAlias: contact events for two identifiers of one phone number       *)
(***************************************************************************)
AliasJids == {Jid("5511", 0, DefaultServer), Jid("5511", 0, "c.us")}
AliasIds == AliasJids \cup {Jid("5511", 0, "")}

AliasContacts ==
    {GwContact(j, nm[1], nm[2], NoName) :
        j \in AliasJids, nm \in {<<"Alice", NoName>>, <<"Bob", NoName>>, <<NoName, "Ana">>}}

NextAlias ==
    \/ \E c \in AliasContacts : ContactsUpsert(One, A1, <<c>>)
    \/ \E j \in AliasJids : UpsertBegin(One, A1, <<Msg(j, 1, "Ann")>>, "append")
    \/ \E h \in One : UpdateBroadcast(h)

SpecAlias == InitStore /\ [][NextAlias]_vars

HasRecord(a, j) == OHas(contacts[a], j) \/ OHas(contacts[a], normalizeJid(j))

\* C12: two identifiers with the same phone number resolve to the same name
\* as soon as a name record is stored under either of them.
C12_SamePhoneSameName ==
    \A a, b \in AliasIds :
        (getPhoneFromJid(a) = getPhoneFromJid(b) /\ (HasRecord(A1, a) \/ HasRecord(A1, b)))
            => ResolveName(A1, a) = ResolveName(A1, b)

(***************************************************************************)
(* getContactInfo (lines 431-494) and getProfilePicture (lines 497-510) as *)
(* a call of their own, for every kind of identifier                       *)
(***************************************************************************)
\* The JS value undefined.  A record field that holds it is stored as the
\* empty name: the code reads names only through `||`, where both are falsy.
Undefined == "undefined"

GroupJid == Jid("120363", 0, "g.us")
InfoJids == {GroupJid, Jid("77", 0, "lid"), Jid("news", 0, "newsletter"),
             Jid("5511", 0, DefaultServer)}

\* sock.groupMetadata(jid): a subject, no subject, or a rejection
MetaOutcomes == {"Team", Undefined, "throws"}

\* lines 436-452: the name found in the directory and the push names
KnownName(a, jid) ==
    LET nj == normalizeJid(jid)
        ph == getPhoneFromJid(jid)
    IN Or(Or(DirectName(contacts[a], nj, jid), ScanName(contacts[a], ph)),
          PushName(pushNames[a], nj, jid, ph))

ContactInfo(n, p) == [ev |-> "contact-info", name |-> n, profilePic |-> p]

InfoReturn(h, a, n, p) ==
    /\ handlers' = [handlers EXCEPT ![h] = Idle]
    /\ returned' = Ret("getContactInfo", a, 0)
    /\ out' = <<ContactInfo(n, p)>>

\* lines 492-493 and getProfilePicture up to its await: the cached picture
\* is returned; without a socket the call throws and null is cached.
InfoPicture(h, a, jid, n) ==
    IF MapHas(profilePics[a], jid)
    THEN /\ InfoReturn(h, a, n, profilePics[a][jid])
         /\ UNCHANGED profilePics
    ELSE IF sock[a] = 0
    THEN /\ InfoReturn(h, a, n, "null")
         /\ profilePics' = [profilePics EXCEPT ![a] = MapSet(@, jid, "null")]
    ELSE /\ handlers' = [handlers EXCEPT ![h] =
               [Idle EXCEPT !.kind = "getContactInfo", !.pc = "pic", !.acct = a,
                            !.jid = jid, !.name = n, !.q = TRUE]]
         /\ returned' = NoReturn
         /\ out' = <<>>
         /\ UNCHANGED profilePics

\* lines 431-473: the call up to its first await
InfoBegin(S, a, jid) ==
    /\ a \in registry
    /\ FreeSlots(S) # {}
    /\ LET h == Least(FreeSlots(S))
           n == KnownName(a, jid)
       IN IF n # NoName
          THEN InfoPicture(h, a, jid, n)
          ELSE IF jid.server # "g.us"
          THEN InfoPicture(h, a, jid, FallbackName(jid))
          ELSE IF sock[a] = 0
          THEN InfoPicture(h, a, jid, jid.user)
          ELSE /\ handlers' = [handlers EXCEPT ![h] =
                     [Idle EXCEPT !.kind = "getContactInfo", !.pc = "meta", !.acct = a,
                                  !.jid = jid]]
               /\ returned' = NoReturn
               /\ out' = <<>>
               /\ UNCHANGED profilePics
    /\ UNCHANGED <<lifeVars, chats, heap, messages, contacts, pushNames, issued, expect, supplied>>

\* lines 464-469: groupMetadata has settled
InfoMeta(h, m) ==
    LET H == handlers[h]
    IN /\ H.kind = "getContactInfo" /\ H.pc = "meta"
       /\ IF m = "throws"
          THEN /\ InfoPicture(h, H.acct, H.jid, H.jid.user)
               /\ UNCHANGED contacts
          ELSE /\ InfoPicture(h, H.acct, H.jid, m)
               /\ contacts' = [contacts EXCEPT ![H.acct] =
                     OSet(@, H.jid, IF m = Undefined THEN Contact(NoName, NoName, NoName)
                                    ELSE Contact(m, m, NoName))]
       /\ UNCHANGED <<lifeVars, chats, heap, messages, pushNames, issued, expect, supplied>>

\* getProfilePicture lines 503-509: profilePictureUrl has settled
InfoPic(h, r) ==
    LET H == handlers[h]
    IN /\ H.kind = "getContactInfo" /\ H.pc = "pic"
       /\ profilePics' = [profilePics EXCEPT ![H.acct] = MapSet(@, H.jid, r)]
       /\ InfoReturn(h, H.acct, H.name, r)
       /\ UNCHANGED <<lifeVars, chats, heap, messages, contacts, pushNames, issued, expect, supplied>>

InfoContacts == {GwContact(j, "Alice", NoName, NoName) : j \in {GroupJid, Jid("77", 0, "lid")}}

NextInfo ==
    \/ \E c \in InfoContacts : ContactsUpsert(One, A1, <<c>>)
    \/ \E h \in One : UpdateBroadcast(h)
    \/ \E j \in InfoJids : InfoBegin(One, A1, j)
    \/ \E h \in One, m \in MetaOutcomes : InfoMeta(h, m)
    \/ \E h \in One, r \in PicResults : InfoPic(h, r)

SpecInfo == InitStore /\ [][NextInfo]_vars

\* C13: getContactInfo always hands back a name that is a string, whatever
\* the identifier, the directory and the outcome of the group lookup.
C13_NameIsString ==
    \A i \in 1..Len(out) : out[i].ev = "contact-info" => out[i].name # Undefined

(***************************************************************************)
(* SpecPics: concurrent getContactInfo calls                               *)
(***************************************************************************)
PicJids == {GroupJid, Jid("77", 0, "lid")}

NextPics ==
    \/ \E j \in PicJids : InfoBegin(Slots, A1, j)
    \/ \E h \in Slots, m \in MetaOutcomes : InfoMeta(h, m)
    \/ \E h \in Slots, r \in PicResults : InfoPic(h, r)

SpecPics == InitStore /\ [][NextPics]_vars

\* The calls suspended at sock.profilePictureUrl for the picture of j
PicQueries(a, j) ==
    {h \in Slots : handlers[h].kind = "getContactInfo" /\ handlers[h].pc = "pic"
                   /\ handlers[h].acct = a /\ handlers[h].jid = j}

\* C14: for an account and an identifier the picture is asked of the
\* gateway at most once: never two queries in flight for the same
\* identifier, and none for an identifier whose picture is cached.
C14_OnePictureQuery ==
    \A a \in AccIds, j \in PicJids :
        /\ Cardinality(PicQueries(a, j)) <= 1
        /\ MapHas(profilePics[a], j) => PicQueries(a, j) = {}

(***************************************************************************)
(* get-history (lines 866-899)                                             *)
(***************************************************************************)
\* Time is counted in days here: the 24 * 60 * 60 seconds of line 876 are
\* one unit, and the clock reads the latest timestamp there is.
HistoryNow == TsOf(3)
HistoryDays == {0, 1, 2}
HistoryLimits == {0, 1, 2}
DefaultLimit == 100

\* src: Array.prototype.slice(-n), n > 0
SliceLast(q, n) == IF Len(q) <= n THEN q ELSE SubSeq(q, Len(q) - n + 1, Len(q))

\* lines 873-892: what the handler computes from the stored array
HistoryWindow(storedMsgs, days, limit) ==
    LET startTime == HistoryNow - days
        filteredMsgs == SelectSeq(storedMsgs, LAMBDA msg : msg.ts >= startTime)
        limitedMsgs == SliceLast(filteredMsgs, IF limit # 0 THEN limit ELSE DefaultLimit)
    IN [messages |-> SortByTs([k \in 1..Len(limitedMsgs) |-> formatMessage(limitedMsgs[k])]),
        total |-> Len(filteredMsgs)]

\* The handler; formatMessage is called without downloadMedia and reaches
\* no I/O, so no event is handled between line 873 and the emit.
GetHistory(a, jid, days, limit) ==
    /\ IF a \notin registry \/ connectionState[a] # "connected"
       THEN out' = <<Error("Conta nao conectada")>>
       ELSE LET w == HistoryWindow(LogOf(a, jid), days, limit)
            IN out' = <<[ev |-> "history", acct |-> a, jid |-> jid,
                         messages |-> w.messages, total |-> w.total]>>
    /\ returned' = Ret("get-history", a, 0)
    /\ UNCHANGED <<lifeVars, storeVars>>

NextHistory ==
    \/ \E b \in LiveSingles, t \in {"notify", "append"} : UpsertBegin(One, A1, b, t)
    \/ UpdateChatSteps
    \/ \E j \in StoreJids, d \in HistoryDays, l \in HistoryLimits : GetHistory(A1, j, d, l)

SpecHistory == InitStore /\ [][NextHistory]_vars

\* All the stored messages, ascending by timestamp.
ByTimestamp(storedMsgs) ==
    SortByTs([k \in 1..Len(storedMsgs) |-> formatMessage(storedMsgs[k])])

\* C15: the history window holds, ascending, the `limit` messages of the
\* greatest timestamps among the stored messages not older than the start
\* of the period, in whatever order they were stored, and the total is the
\* number of stored messages not older than the start.
C15_HistoryWindow ==
    \A j \in StoreJids, d \in HistoryDays, l \in HistoryLimits \ {0} :
        LET w == HistoryWindow(LogOf(A1, j), d, l)
            inPeriod == SelectSeq(ByTimestamp(LogOf(A1, j)),
                                  LAMBDA m : m.timestamp >= HistoryNow - d)
        IN /\ w.messages = SliceLast(inPeriod, l)
           /\ w.total = Len(inPeriod)

(***************************************************************************)
(* getFormattedChats (lines 586-608) and get-account-state (lines 658-681) *)
(***************************************************************************)
\* The length the list is cut to at line 607, where it is 50; scaled to the
\* number of chats there are here.
ListCap == 2

ListJids == {Jid("5511", 0, DefaultServer), Jid("5512", 0, DefaultServer),
             Jid("5513", 0, DefaultServer)}

\* src: Array.from(account.chats.values()); the order of insertion is not
\* kept by the model, the array has the chats in some order.
RECURSIVE ChatArray(_, _, _)
ChatArray(cs, hp, J) ==
    IF J = {} THEN <<>>
    ELSE LET j == CHOOSE x \in J : TRUE
         IN <<hp[cs[j]]>> \o ChatArray(cs, hp, J \ {j})

\* lines 596-603, the fields kept of an entry
ListEntry(chat) ==
    [id |-> chat.id, lastMessage |-> chat.lastMessage,
     timestamp |-> IF chat.timestamp # 0 THEN chat.timestamp ELSE chat.conversationTimestamp,
     unreadCount |-> chat.unreadCount]

\* src: the sort of line 606, newest first, stable
RECURSIVE InsertNewestFirst(_, _)
InsertNewestFirst(sorted, e) ==
    IF sorted = <<>> THEN <<e>>
    ELSE IF sorted[Len(sorted)].timestamp >= e.timestamp THEN Append(sorted, e)
    ELSE Append(InsertNewestFirst(SubSeq(sorted, 1, Len(sorted) - 1), e), sorted[Len(sorted)])

RECURSIVE SortNewestFirst(_)
SortNewestFirst(q) ==
    IF q = <<>> THEN <<>>
    ELSE InsertNewestFirst(SortNewestFirst(SubSeq(q, 1, Len(q) - 1)), q[Len(q)])

\* The list without the sort of line 606.
getFormattedChatsUnsorted(cs, hp) ==
    LET shown == SelectSeq(ChatArray(cs, hp, DOMAIN cs),
                     LAMBDA chat : chat.lastMessage # NoLast \/ chat.conversationTimestamp # 0)
        formatted == [k \in 1..Len(shown) |-> ListEntry(shown[k])]
    IN SubSeq(formatted, 1, IF Len(formatted) < ListCap THEN Len(formatted) ELSE ListCap)

\* src: getFormattedChats
getFormattedChats(cs, hp) ==
    LET shown == SelectSeq(ChatArray(cs, hp, DOMAIN cs),
                     LAMBDA chat : chat.lastMessage # NoLast \/ chat.conversationTimestamp # 0)
        formatted == SortNewestFirst([k \in 1..Len(shown) |-> ListEntry(shown[k])])
    IN SubSeq(formatted, 1, IF Len(formatted) < ListCap THEN Len(formatted) ELSE ListCap)

\* get-account-state up to the call of getFormattedChats, which suspends at
\* the picture queries of the chats it lists.  qrCodeData is held to be set
\* from the QR code on until the session opens.
GetAccountState(S, a) ==
    /\ IF a \notin registry
       THEN /\ out' = <<Error("Conta nao encontrada")>>
            /\ returned' = Ret("get-account-state", a, 0)
            /\ UNCHANGED handlers
       ELSE IF connectionState[a] # "connected"
       THEN /\ out' = <<AccountStatus(a, connectionState[a])>>
                      \o (IF connectionState[a] = "qr"
                          THEN <<[ev |-> "account-qr", acct |-> a]>> ELSE <<>>)
            /\ returned' = Ret("get-account-state", a, 0)
            /\ UNCHANGED handlers
       ELSE /\ FreeSlots(S) # {}
            /\ out' = <<AccountStatus(a, "connected")>>
            /\ returned' = NoReturn
            /\ handlers' = [handlers EXCEPT ![Least(FreeSlots(S))] =
                               ListHandler("get-account-state", a, chats, heap)]
    /\ UNCHANGED <<lifeVars, chats, heap, messages, contacts, pushNames, profilePics, issued,
                   expect, supplied>>

\* lines 676-679: getFormattedChats has answered and the list is sent to
\* the requester
StateChats(h) ==
    LET H == handlers[h]
    IN /\ H.kind = "get-account-state" /\ H.pc = "list"
       /\ \E f \in ListAnswers(h) :
             profilePics' = [profilePics EXCEPT ![H.acct] = PicsAfter(h, f)]
       /\ out' = <<[ev |-> "chats-update", acct |-> H.acct,
                    chats |-> getFormattedChats(chats[H.acct], heap)]>>
       /\ Finish(h, "get-account-state", 0)
       /\ UNCHANGED <<lifeVars, chats, heap, messages, contacts, pushNames, issued, expect,
                      supplied>>

ListGwChats == {GwChat(j, 0, c, NoName) : j \in ListJids, c \in {0, 1, 2}}

NextList ==
    \/ \E c \in ListGwChats : ChatsUpsert(One, A1, <<c>>)
    \/ \E j \in StoreJids : UpsertBegin(One, A1, <<Msg(j, 1, NoName)>>, "notify")
    \/ UpdateChatSteps
    \/ GetAccountState(One, A1)
    \/ \E h \in One : StateChats(h)

SpecList == InitStore /\ [][NextList]_vars

ShownChats(a) ==
    {j \in DOMAIN chats[a] :
        heap[chats[a][j]].lastMessage # NoLast \/ heap[chats[a][j]].conversationTimestamp # 0}

\* C16: the chat list has at most ListCap entries, is sorted newest first,
\* holds only chats that have a last message or an activity timestamp, and
\* no chat left out is newer than a chat in the list.
C16_ListProjection ==
    LET L == getFormattedChats(chats[A1], heap)
        in == {L[k].id : k \in 1..Len(L)}
    IN /\ Len(L) <= ListCap
       /\ \A k \in 1..(Len(L) - 1) : L[k].timestamp >= L[k + 1].timestamp
       /\ in \subseteq ShownChats(A1)
       /\ Cardinality(in) = Len(L)
       /\ Len(L) < ListCap => in = ShownChats(A1)
       /\ \A j \in ShownChats(A1) \ in, k \in 1..Len(L) :
             ListEntry(heap[chats[A1][j]]).timestamp <= L[k].timestamp

\* C16 witness: more chats to show than the list takes, and the list has
\* been sent cut to its cap.
C16_Witness ==
    /\ Cardinality(ShownChats(A1)) > ListCap
    /\ \E i \in 1..Len(out) :
          /\ out[i].ev = "chats-update" /\ out[i] # ChatsUpdateEv(A1)
          /\ Len(out[i].chats) = ListCap

(***************************************************************************)
(* rename-account (lines 684-691) and the commands on an account that is   *)
(* not there                                                               *)
(***************************************************************************)
RenameNames == {"Work", NoName}

\* A rename that leaves accounts.json as it is.
RenameUnsaved(a, n) ==
    /\ IF a \in registry
       THEN /\ accountName' = [accountName EXCEPT ![a] = n]
            /\ out' = <<AccountsUpdate>>
       ELSE /\ out' = <<>>
            /\ UNCHANGED accountName
    /\ returned' = Ret("rename-account", a, 0)
    /\ UNCHANGED <<registry, uploads, connectionState, sock, sessions, authFolder, phoneNumber, file,
                   timers, conn, pending, created, storeVars>>

\* src: rename-account handler
RenameAccount(a, n) ==
    /\ IF a \in registry
       THEN /\ accountName' = [accountName EXCEPT ![a] = n]
            /\ file' = Saved(registry, accountName', phoneNumber)
            /\ out' = <<AccountsUpdate>>
       ELSE /\ out' = <<>>
            /\ UNCHANGED <<accountName, file>>
    /\ returned' = Ret("rename-account", a, 0)
    /\ UNCHANGED <<registry, uploads, connectionState, sock, sessions, authFolder, phoneNumber, timers,
                   conn, pending, created, storeVars>>

\* src: delete-account, line 696: the id names no account
DeleteIgnored(a) ==
    /\ a \notin registry
    /\ out' = <<>>
    /\ returned' = Ret("delete-account", a, 0)
    /\ UNCHANGED <<lifeVars, storeVars>>

\* src: logout-account, line 716: no account of this id, or one without a
\* socket
LogoutIgnored(a) ==
    /\ a \notin registry \/ sock[a] = 0
    /\ out' = <<>>
    /\ returned' = Ret("logout-account", a, 0)
    /\ UNCHANGED <<lifeVars, storeVars>>

(***************************************************************************)
(* SpecCommands: the observer's commands on a known and an unknown account *)
(***************************************************************************)
NextCommands ==
    \/ \E a \in AccIds : ConnectCommand(a)
    \/ \E a \in AccIds : GetAccountState(One, a)
    \/ \E h \in One : StateChats(h)
    \/ \E a \in AccIds, n \in RenameNames : RenameAccount(a, n)
    \/ \E a \in AccIds : DeleteBegin(a)
    \/ \E a \in AccIds : DeleteEnd(a)
    \/ \E a \in AccIds : DeleteIgnored(a)
    \/ \E a \in AccIds : LogoutBegin(a)
    \/ \E a \in AccIds : LogoutEnd(a)
    \/ \E a \in AccIds : LogoutIgnored(a)
    \/ \E a \in AccIds, j \in StoreJids : SendBegin(One, a, j)
    \/ \E h \in One : SendSent(h)
    \/ \E h \in One : SendFailed(h)
    \/ \E h \in One : SendAck(h)
    \/ \E h \in One : UpdateSet(h)
    \/ \E h \in One : UpdateBroadcast(h)
    \/ \E a \in AccIds, j \in StoreJids : GetMessagesBegin(One, a, j)
    \/ \E h \in One : GetMessagesMap(h)
    \/ \E h \in One : GetMessagesEmit(h)
    \/ \E a \in AccIds, j \in StoreJids : GetHistory(a, j, 1, 1)

SpecCommands == InitStore /\ [][NextCommands]_vars

CommandKinds == {"connect-account", "get-account-state", "rename-account", "delete-account",
                 "logout-account", "send-message", "get-messages", "get-history"}

\* C17: a command that names an account the registry does not have ends
\* with exactly one error notification to its requester and changes nothing.
C17_UnknownAccountError ==
    [][\A a \in AccIds :
          (a \notin registry /\ pending[a] = {}
             /\ returned'.acct = a /\ returned'.kind \in CommandKinds)
          => (Len(out') = 1 /\ out'[1].ev = "error" /\ UNCHANGED <<lifeVars, storeVars>>)]_vars

(***************************************************************************)
(* SpecRegistry: every step that changes the registry or what is saved of  *)
(* an account                                                              *)
(***************************************************************************)
NextRegistry ==
    \/ \E a \in LifeAccs : CreateAccount(a)
    \/ \E a \in LifeAccs : RenameAccount(a, "Work")
    \/ \E a \in LifeAccs : ConnectCommand(a)
    \/ \E a \in LifeAccs, by \in {"cmd", "timer", "stale"} : ConnectMake(a, by)
    \/ \E a \in LifeAccs, k \in {"fresh", "stale"} : TimerFire(a, k)
    \/ \E s \in SessIds, r \in Reasons : Close(s, r)
    \/ \E s \in SessIds, u \in Phones \cup {NoPhone} : Open(s, u)
    \/ \E a \in LifeAccs : DeleteBegin(a)
    \/ \E a \in LifeAccs : DeleteEnd(a)
    \/ \E a \in LifeAccs : LogoutBegin(a)
    \/ \E a \in LifeAccs : LogoutEnd(a)

SpecRegistry == InitLife /\ [][NextRegistry]_vars

Stamps == {1, 2}

InputPath(t) == [file |-> "input", stamp |-> t]
OutputPath(t) == [file |-> "output", stamp |-> t]

\* lines 774-797 and 45-54: the handler up to its await of the conversion.
\* written: whether fs.writeFileSync(inputPath) succeeds; when it throws in
\* the executor the promise is rejected and the handler's catch runs.
SendAudioBegin(S, a, jid, t, written) ==
    /\ IF a \notin registry \/ connectionState[a] # "connected"
       THEN /\ out' = <<Error("Conta nao conectada")>>
            /\ returned' = Ret("send-message", a, 0)
            /\ UNCHANGED <<handlers, uploads>>
       ELSE IF ~written
       THEN /\ out' = <<Error("Erro ao enviar mensagem")>>
            /\ returned' = Ret("send-message", a, 0)
            /\ UNCHANGED <<handlers, uploads>>
       ELSE /\ FreeSlots(S) # {}
            /\ uploads' = uploads \cup {InputPath(t)}
            /\ handlers' = [handlers EXCEPT ![Least(FreeSlots(S))] =
                  [Idle EXCEPT !.kind = "send-message", !.pc = "transcode", !.acct = a,
                               !.jid = jid, !.sk = sock[a], !.stamp = t]]
            /\ out' = <<>>
            /\ returned' = NoReturn
    /\ UNCHANGED <<registry, accountName, connectionState, sock, sessions, authFolder,
                   phoneNumber, file, timers, conn, pending, created, chats, heap, messages,
                   contacts, pushNames, profilePics, issued, expect, supplied>>

\* The encoder writes its output file (.save(outputPath), line 74).
TranscodeWrites(h) ==
    LET H == handlers[h]
    IN /\ H.kind = "send-message" /\ H.pc = "transcode" /\ ~H.q
       /\ uploads' = uploads \cup {OutputPath(H.stamp)}
       /\ handlers' = [handlers EXCEPT ![h].q = TRUE]
       /\ out' = <<>>
       /\ returned' = NoReturn
       /\ UNCHANGED <<registry, accountName, connectionState, sock, sessions, authFolder,
                      phoneNumber, file, timers, conn, pending, created, chats, heap, messages,
                      contacts, pushNames, profilePics, issued, expect, supplied>>

\* lines 62-67, the encoder's 'end' event.  readable: whether
\* fs.readFileSync(outputPath) succeeds, which needs the file to be there.
\* When it succeeds both files are unlinked, the promise resolves and the
\* handler calls sock.sendMessage (line 798); when it throws, the exception
\* leaves the event callback: nothing is unlinked and the promise is never
\* settled.
TranscodeEnd(h, readable) ==
    LET H == handlers[h]
    IN /\ H.kind = "send-message" /\ H.pc = "transcode" /\ H.q
       /\ readable => OutputPath(H.stamp) \in uploads
       /\ IF readable
          THEN /\ uploads' = uploads \ {InputPath(H.stamp), OutputPath(H.stamp)}
               /\ \E i \in OutIds \ issued[H.acct] :
                     /\ issued' = [issued EXCEPT ![H.acct] = @ \cup {i}]
                     /\ handlers' = [handlers EXCEPT ![h].pc = "send", ![h].q = FALSE,
                                        ![h].cur = Msg(H.jid, i, NoName)]
          ELSE /\ handlers' = [handlers EXCEPT ![h].pc = "hung"]
               /\ UNCHANGED <<uploads, issued>>
       /\ out' = <<>>
       /\ returned' = NoReturn
       /\ UNCHANGED <<registry, accountName, connectionState, sock, sessions, authFolder,
                      phoneNumber, file, timers, conn, pending, created, chats, heap, messages,
                      contacts, pushNames, profilePics, expect, supplied>>

\* lines 68-73 and 824-827, the encoder's 'error' event: both files are
\* unlinked, the promise is rejected and the handler's catch reports it.
TranscodeError(h) ==
    LET H == handlers[h]
    IN /\ H.kind = "send-message" /\ H.pc = "transcode"
       /\ uploads' = uploads \ {InputPath(H.stamp), OutputPath(H.stamp)}
       /\ Finish(h, "send-message", 0)
       /\ out' = <<Error("Erro ao enviar mensagem")>>
       /\ UNCHANGED <<registry, accountName, connectionState, sock, sessions, authFolder,
                      phoneNumber, file, timers, conn, pending, created, chats, heap, messages,
                      contacts, pushNames, profilePics, issued, expect, supplied>>

(***************************************************************************)
(* SpecAudio: audio messages sent concurrently                             *)
(***************************************************************************)
NextAudio ==
    \/ \E j \in StoreJids, t \in Stamps, w \in BOOLEAN : SendAudioBegin(Slots, A1, j, t, w)
    \/ \E h \in Slots : TranscodeWrites(h)
    \/ \E h \in Slots, r \in BOOLEAN : TranscodeEnd(h, r)
    \/ \E h \in Slots : TranscodeError(h)
    \/ \E h \in Slots : SendSent(h)
    \/ \E h \in Slots : SendFailed(h)
    \/ \E h \in Slots : SendAck(h)
    \/ \E h \in Slots : UpdateSet(h)
    \/ \E h \in Slots : UpdateBroadcast(h)

SpecAudio == InitStore /\ [][NextAudio]_vars

Converting(h) == handlers[h].kind = "send-message" /\ handlers[h].pc = "transcode"

\* C19: a conversion whose encoder has ended has settled, the temporary
\* files there are belong to conversions still running, and a running
\* conversion has its input file, whatever other conversions do.
C19_TranscodeCleansUp ==
    /\ \A h \in Slots : handlers[h].pc # "hung"
    /\ \A f \in uploads : \E h \in Slots : Converting(h) /\ handlers[h].stamp = f.stamp
    /\ \A h \in Slots : Converting(h) => InputPath(handlers[h].stamp) \in uploads

\* C20: when the conversion of an audio message ends without its output,
\* the send ends there: one error goes to the requester, nothing is sent
\* through the gateway and the stores stay as they are.
C20_FailedTranscodeAborts ==
    [][\A h \in Slots :
          (Converting(h) /\ handlers'[h].pc \notin {"transcode", "send"})
          => (/\ out' = <<Error("Erro ao enviar mensagem")>>
              /\ handlers'[h] = Idle
              /\ UNCHANGED <<messages, chats, heap, issued>>)]_vars

(***************************************************************************)
(* Properties of the contact merges                                        *)
(***************************************************************************)
\* The contact records the merges are applied to a second time: the
\* gateway's records under the plain id and under a device form of it.
MergeJids == ContactJids \cup {Jid("5511", 2, DefaultServer)}
MergeContacts ==
    {GwContact(j, c.name, c.notify, c.verifiedName) :
        j \in MergeJids,
        c \in StoreContactUpdates \cup {x \in StoreContacts : NameOf(x) = x.verifiedName}}
MergeLen == 2
MergeBatches == SeqsUpTo(MergeContacts, MergeLen) \ {<<>>}

\* C21: a contact batch upsert or incremental update applied a second time
\* right after the first leaves the directory and the push names, and so
\* every resolved name, as the first application left them.
C21_MergeIdempotent ==
    \A b \in MergeBatches, isUpdate \in BOOLEAN :
        LET once == ContactsFold(Stores(A1), b, isUpdate)
        IN ContactsFold(once, b, isUpdate) = once

\* C21 witness: an incremental update with both names has been merged into
\* a directory that held a record of the contact.
C21_Witness ==
    /\ \E j \in ContactJids :
          /\ OHas(contacts[A1], j)
          /\ OGet(contacts[A1], j).notify = "ali2"
          /\ OGet(contacts[A1], j).verifiedName # NoName
    /\ \E u \in StoreContactUpdates :
          /\ u.name # NoName
          /\ UpdateContact(Stores(A1), u) = Stores(A1)

(***************************************************************************)
(* SpecFormat: getContactInfo for numbers nothing is known of              *)
(***************************************************************************)
FormatPhones == {"5511987654321", "551187654321", "55118765432", "55119876543210",
                 "4411987654321", "441187654321", "5511"}
FormatJids == {Jid(n, 0, DefaultServer) : n \in FormatPhones}

NextFormat ==
    \/ \E j \in FormatJids : InfoBegin(One, A1, j)
    \/ \E h \in One, r \in PicResults : InfoPic(h, r)

SpecFormat == InitStore /\ [][NextFormat]_vars

\* The name the number stands for: country code 55, a two-digit area code
\* and nine or eight digits, or any other number.
AreaName(number) ==
    LET local == Len(number) - 4
        area == SubSeq(number, 3, 4)
    IN CASE SubSeq(number, 1, 2) = "55" /\ local = 9 ->
              "(" \o area \o ") " \o SubSeq(number, 5, 9) \o "-" \o SubSeq(number, 10, 13)
         [] SubSeq(number, 1, 2) = "55" /\ local = 8 ->
              "(" \o area \o ") " \o SubSeq(number, 5, 8) \o "-" \o SubSeq(number, 9, 12)
         [] OTHER -> "+" \o number

\* C22: the name made for a number no store has a name for is
\* "(AA) NNNNN-NNNN" for 55, an area code and nine digits, "(AA) NNNN-NNNN"
\* for 55, an area code and eight digits, and "+" and the number otherwise.
C22_FallbackFormat ==
    /\ \A n \in FormatPhones : FormatNumber(n) = AreaName(n)
    /\ \A h \in Slots :
          (handlers[h].kind = "getContactInfo" /\ handlers[h].pc = "pic"
             /\ handlers[h].jid \in FormatJids)
          => handlers[h].name = AreaName(handlers[h].jid.user)

\* C22 witness: the call for 5511987654321 has made the name of the claim's
\* example and waits for the picture.
C22_Witness ==
    \E h \in Slots :
        /\ handlers[h].kind = "getContactInfo" /\ handlers[h].pc = "pic"
        /\ handlers[h].jid = Jid("5511987654321", 0, DefaultServer)
        /\ handlers[h].name = "(11) 98765-4321"

(***************************************************************************)
(* Properties of the sessions and of the connection state                  *)
(***************************************************************************)
LiveSessions(a) == {s \in SessIds : sessions[s].status = "live" /\ sessions[s].acct = a}

\* C23: an account never has two gateway sessions open at the same time.
C23_OneLiveSession == \A a \in AccIds : Cardinality(LiveSessions(a)) <= 1

(***************************************************************************)
(* Properties of reads against concurrent live messages                    *)
(***************************************************************************)
\* The inbound messages in the log of chat j that the list of messages just
\* sent by get-messages does not hold.
Undelivered(a, j, sent) ==
    {k \in 1..Len(LogOf(a, j)) :
        /\ ~LogOf(a, j)[k].fromMe
        /\ \A l \in 1..Len(sent) : sent[l].id # LogOf(a, j)[k].id}

\* C24: when a get-messages read has finished last and no handler is running,
\* a chat whose log holds an inbound message that was recorded on the chat
\* but is not in the list the read delivered has an unread counter of at
\* least 1.
C24_ReadKeepsUndelivered ==
    (/\ AllIdle
     /\ returned.kind = "get-messages"
     /\ Len(out) = 1 /\ out[1].ev = "messages"
     /\ MapHas(chats[A1], out[1].jid)
     /\ MapHas(messages[A1], out[1].jid)
     /\ Undelivered(A1, out[1].jid, out[1].messages) # {}
     /\ \E k \in Undelivered(A1, out[1].jid, out[1].messages) :
           heap[chats[A1][out[1].jid]].lastMessage # NoLast
           /\ heap[chats[A1][out[1].jid]].lastMessage.id = LogOf(A1, out[1].jid)[k].id)
    => ChatUnread(A1, out[1].jid) >= 1

(***************************************************************************)
(* SpecKeys: contact events under a device form of an identifier and       *)
(* under its canonical form                                                *)
(***************************************************************************)
KeyContacts == {GwContact(j, n, NoName, NoName) : j \in MergeJids, n \in ExplicitNames}
KeyUpdates == {GwContact(j, n, nt, NoName) : j \in MergeJids, n \in {NoName, "Alicia"},
                                             nt \in {NoName, "ali2"}}
KeyMsgs == {Msg(j, 1, "Ann") : j \in MergeJids}

NextKeys ==
    \/ \E c \in KeyContacts : ContactsUpsert(One, A1, <<c>>)
    \/ \E u \in KeyUpdates : ContactsUpdate(One, A1, <<u>>)
    \/ \E m \in KeyMsgs : UpsertBegin(One, A1, <<m>>, "append")
    \/ \E m \in KeyMsgs : HistorySet(One, A1, <<>>, <<m>>)
    \/ \E h \in One : UpdateBroadcast(h)

SpecKeys == InitStore /\ [][NextKeys]_vars

\* C25: whenever the directory holds a record under an identifier and a
\* record under its canonical form, the two records have the same name.
C25_KeysAgree ==
    \A j \in MergeJids :
        (OHas(contacts[A1], j) /\ OHas(contacts[A1], normalizeJid(j)))
            => OGet(contacts[A1], j).name = OGet(contacts[A1], normalizeJid(j)).name

(***************************************************************************)
(* Properties of the unread counter and of the message logs over time      *)
(***************************************************************************)
\* C26: in a step that is not the explicit read of get-messages, the unread
\* counter of a chat that exists before and after the step does not
\* decrease.
C26_UnreadMonotonic ==
    [][\A j \in DOMAIN chats[A1] :
          (MapHas(chats'[A1], j) /\ ~(\E h \in Slots : MarkReadStep(h)))
              => heap'[chats'[A1][j]].unreadCount >= ChatUnread(A1, j)]_vars

(***************************************************************************)
(* SpecLog: every handler that reads or writes a chat's message log        *)
(***************************************************************************)
NextLog ==
    \/ \E b \in LiveSingles, t \in {"notify", "append"} : UpsertBegin(One, A1, b, t)
    \/ UpdateChatSteps
    \/ \E b \in SeqsUpTo(StoreMsgs, MaxBatch) : HistorySet(One, A1, <<>>, b)
    \/ \E j \in StoreJids : SendBegin(One, A1, j)
    \/ \E h \in One : SendSent(h)
    \/ \E h \in One : SendFailed(h)
    \/ \E h \in One : SendAck(h)
    \/ \E j \in StoreJids : GetMessagesBegin(One, A1, j)
    \/ \E h \in One : GetMessagesMap(h)
    \/ \E h \in One : GetMessagesEmit(h)
    \/ \E j \in StoreJids, d \in HistoryDays, l \in HistoryLimits : GetHistory(A1, j, d, l)

SpecLog == InitStore /\ [][NextLog]_vars

IsPrefix(p, q) == Len(p) <= Len(q) /\ SubSeq(q, 1, Len(p)) = p

\* C27: in every step of a live batch, a history sync, a send, a
\* get-messages or a get-history, the log of every chat before the step is
\* a prefix of its log after the step.
C27_LogAppendOnly ==
    [][\A j \in DOMAIN messages[A1] :
          MapHas(messages'[A1], j) /\ IsPrefix(messages[A1][j], messages'[A1][j])]_vars

\* C27 witness: a get-messages has just delivered, by timestamp, a log of
\* three messages that is stored in another order, the order of arrival.
C27_Witness ==
    /\ returned.kind = "get-messages"
    /\ Len(out) = 1 /\ out[1].ev = "messages"
    /\ Len(LogOf(A1, out[1].jid)) = 3
    /\ Len(out[1].messages) = 3
    /\ \E k \in 1..3 : out[1].messages[k].id # LogOf(A1, out[1].jid)[k].id
    /\ \E k \in 1..2 : LogOf(A1, out[1].jid)[k].ts > LogOf(A1, out[1].jid)[k + 1].ts

(***************************************************************************)
(* start-new-chat (lines 738-770)                                          *)
(***************************************************************************)
\* The handler up to the first await of getContactInfo; exists and jid are
\* what sock.onWhatsApp answers for the number.
StartNewChat(S, a, jid, exists) ==
    IF a \notin registry \/ connectionState[a] # "connected"
    THEN /\ out' = <<Error("Conta nao conectada")>>
         /\ returned' = Ret("start-new-chat", a, 0)
         /\ UNCHANGED <<lifeVars, storeVars>>
    ELSE IF ~exists
    THEN /\ out' = <<Error("Numero nao encontrado no WhatsApp")>>
         /\ returned' = Ret("start-new-chat", a, 0)
         /\ UNCHANGED <<lifeVars, storeVars>>
    ELSE InfoBegin(S, a, jid)

(***************************************************************************)
(* SpecConn: the commands and the gateway's events of two accounts         *)
(***************************************************************************)
ConnJid == Jid("5511", 0, DefaultServer)
ConnMsg == Msg(ConnJid, 1, NoName)
ConnContact == GwContact(ConnJid, "Alice", NoName, NoName)
ConnChat == GwChat(ConnJid, 0, 1, NoName)

ConnCommands ==
    \/ CreateAccount(A2)
    \/ ConnectCommand(A2)
    \/ ConnectMake(A2, "cmd")
    \/ GetAccountState(One, A1)
    \/ \E h \in One : StateChats(h)
    \/ RenameAccount(A1, DefaultName(A1))
    \/ \E e \in BOOLEAN : StartNewChat(One, A1, ConnJid, e)
    \/ SendBegin(One, A1, ConnJid)
    \/ \E h \in One : SendSent(h)
    \/ \E h \in One : SendFailed(h)
    \/ \E h \in One : SendAck(h)
    \/ GetMessagesBegin(One, A1, ConnJid)
    \/ \E h \in One : GetMessagesMap(h)
    \/ \E h \in One : GetMessagesEmit(h)
    \/ GetHistory(A1, ConnJid, 1, 1)
    \/ LogoutBegin(A2)
    \/ LogoutEnd(A2)

ConnEvents ==
    \/ Qr(2)
    \/ Open(2, "5599")
    \/ \E r \in Reasons : Close(2, r)
    \/ ContactsUpsert(One, A1, <<ConnContact>>)
    \/ ContactsUpdate(One, A1, <<ConnContact>>)
    \/ ChatsUpsert(One, A1, <<ConnChat>>)
    \/ ChatsUpdate(One, A1, <<ConnChat>>)
    \/ UpsertBegin(One, A1, <<ConnMsg>>, "append")
    \/ HistorySet(One, A1, <<ConnChat>>, <<ConnMsg>>)
    \/ \E h \in One : UpdateSet(h)
    \/ \E h \in One : UpdateBroadcast(h)

NextConn == ConnCommands \/ ConnEvents

SpecConn == InitStore /\ [][NextConn]_vars

\* A connection.update event of a session of account a.
ConnectionEvent(a) ==
    \E s \in SessIds :
        /\ sessions[s].acct = a
        /\ \/ Qr(s)
           \/ \E u \in Phones \cup {NoPhone} : Open(s, u)
           \/ \E r \in Reasons : Close(s, r)

\* C28: the connection state of an account changes only in a step of a
\* connection.update event of a session of that account or of a
\* logout-account command for it; every other command and event, and every
\* event of another account, leaves it as it is.
C28_StateFrame ==
    [][\A a \in AccIds :
          connectionState'[a] # connectionState[a] => (ConnectionEvent(a) \/ LogoutEnd(a))]_vars

\* C28 witness: the second account is showing its QR code, and a
\* send-message for the first account, which has a chat with a last
\* message, a stored contact and two stored messages, has just finished with
\* the first account still connected.
C28_Witness ==
    /\ connectionState[A2] = "qr"
    /\ connectionState[A1] = "connected"
    /\ returned.kind = "send-message"
    /\ MapHas(chats[A1], ConnJid)
    /\ heap[chats[A1][ConnJid]].lastMessage # NoLast
    /\ OHas(contacts[A1], ConnJid)
    /\ Len(LogOf(A1, ConnJid)) = 2

====
